---------------------------- MODULE Spec2Model ----------------------------
(***************************************************************************)
(* A model of pyro2's cell-centered multigrid solver                       *)
(* (multigrid/multigrid.py, class ccMG2d) and of the incompressible        *)
(* projection-method integrator that drives it                             *)
(* (incompressible/simulation.py, class Simulation).                       *)
(*                                                                         *)
(* Numbers.  The program computes in float64.  The model computes in exact *)
(* rational arithmetic: a number is a pair <<n, d>> in lowest terms with   *)
(* d > 0.  The pairs <<1,0>>, <<-1,0>> and <<0,0>> stand for +inf, -inf    *)
(* and nan, which numpy produces when an array is divided by a zero        *)
(* scalar.  Rounding is not modelled.  error() returns a square root; the  *)
(* model keeps the squared norm and compares squares.                      *)
(***************************************************************************)
EXTENDS Integers, Sequences, FiniteSets, TLC

VARIABLES
    MG,        \* the ccMG2d object in use (NoMG when there is none)
    fr,        \* the locals of its solve call, see IdleFrame
    ctorCall,  \* the arguments of the last ccMG2d(...) call
    rp,        \* Simulation.rp: the runtime parameters
    store,     \* the CellCenterData2d objects, by identity
    cc_data,   \* Simulation.cc_data: the identity of the current object
    sim_pc,    \* the position of the driver in Simulation's methods
    loc,       \* the locals of the running preevolve/evolve
    hist       \* what the run has done so far (observations only)

mgVars == <<MG, fr, ctorCall>>
simVars == <<rp, store, cc_data, sim_pc, loc, hist>>
vars == <<MG, fr, ctorCall, rp, store, cc_data, sim_pc, loc, hist>>

(***************************************************************************)
(* Exact rational arithmetic                                               *)
(***************************************************************************)
\* names the value e for the body F (a local variable of the code)
With(e, F(_)) == F(e)

Abs(n) == IF n < 0 THEN -n ELSE n

Sign(n) == IF n < 0 THEN -1 ELSE IF n = 0 THEN 0 ELSE 1

RECURSIVE GCD(_, _)
GCD(a, b) == IF b = 0 THEN a ELSE GCD(b, a % b)

\* the number n/d in lowest terms; a zero denominator gives inf or nan
R(n, d) ==
    IF d = 0 THEN <<Sign(n), 0>>
    ELSE IF d = 1 THEN <<n, 1>>
    ELSE IF n = 0 THEN <<0, 1>>
    ELSE LET g == GCD(Abs(n), Abs(d))
             s == IF d < 0 THEN -1 ELSE 1
         IN  <<(s * n) \div g, (s * d) \div g>>

Zero == <<0, 1>>
One == <<1, 1>>
NaN == <<0, 0>>
Inf == <<1, 0>>

I2R(n) == <<n, 1>>

IsFinite(a) == a[2] # 0

RNeg(a) == <<-a[1], a[2]>>

RAdd(a, b) ==
    IF a = <<0, 1>> THEN b
    ELSE IF b = <<0, 1>> THEN a
    ELSE IF a[2] # 0 /\ b[2] # 0 THEN
        IF a[2] = b[2] THEN R(a[1] + b[1], a[2])
        ELSE With(GCD(a[2], b[2]), LAMBDA g :
                R(a[1] * (b[2] \div g) + b[1] * (a[2] \div g), (a[2] \div g) * b[2]))
    ELSE IF a = NaN \/ b = NaN THEN NaN
    ELSE IF a[2] = 0 /\ b[2] = 0 THEN (IF a = b THEN a ELSE NaN)
    ELSE IF a[2] = 0 THEN a ELSE b

RSub(a, b) == RAdd(a, RNeg(b))

RMul(a, b) ==
    IF a = <<1, 1>> THEN b
    ELSE IF b = <<1, 1>> THEN a
    ELSE IF a[1] = 0 \/ b[1] = 0 \/ a[2] = 0 \/ b[2] = 0 THEN R(a[1] * b[1], a[2] * b[2])
    ELSE With(GCD(Abs(a[1]), b[2]), LAMBDA g :
         With(GCD(Abs(b[1]), a[2]), LAMBDA h :
            R((a[1] \div g) * (b[1] \div h), (a[2] \div h) * (b[2] \div g))))

RInv(b) ==
    IF b[1] = 0 THEN <<(IF b[2] = 0 THEN 0 ELSE 1), 0>>
    ELSE IF b[1] > 0 THEN <<b[2], b[1]>>
    ELSE <<-b[2], -b[1]>>

RDiv(a, b) == RMul(a, RInv(b))

\* a < b as IEEE compares: false as soon as one side is nan
RLt(a, b) == a # NaN /\ b # NaN /\ a[1] * b[2] < b[1] * a[2]

RLe(a, b) == a # NaN /\ b # NaN /\ a[1] * b[2] <= b[1] * a[2]

RAbs(a) == <<Abs(a[1]), a[2]>>

Half == <<1, 2>>
Two == <<2, 1>>

(***************************************************************************)
(* mesh.patch: grids and cell-centered arrays.  The patch module is not    *)
(* among the source files; these definitions follow the specification's    *)
(* data model (Grid2D, CellArray, BCPolicy, Transfer).                     *)
(***************************************************************************)
\* patch.grid2d(nx, ny, ng, xmin, xmax, ymin, ymax)
Grid2d(nx, ny, ng, xmin, xmax, ymin, ymax) ==
    [nx |-> nx, ny |-> ny, ng |-> ng,
     qx |-> nx + 2 * ng, qy |-> ny + 2 * ng,
     ilo |-> ng, ihi |-> ng + nx - 1,
     jlo |-> ng, jhi |-> ng + ny - 1,
     xmin |-> xmin, xmax |-> xmax, ymin |-> ymin, ymax |-> ymax,
     dx |-> R(xmax - xmin, nx), dy |-> R(ymax - ymin, ny)]

\* forces TLC to tabulate a function it would otherwise re-evaluate lazily
Tab(a) == IF a = a THEN a ELSE a

\* an array of the grid's shape built from a cell formula
ArrayOf(g, Cell(_, _)) ==
    Tab([i \in 0..(g.qx - 1) |-> [j \in 0..(g.qy - 1) |-> Cell(i, j)]])

\* grid.scratch_array(): a fresh zeroed array
scratch_array(g) == ArrayOf(g, LAMBDA i, j : Zero)

Interior(g) == (g.ilo..g.ihi) \X (g.jlo..g.jhi)

IsInterior(g, i, j) == i >= g.ilo /\ i <= g.ihi /\ j >= g.jlo /\ j <= g.jhi

\* the interior index a ghost index takes its value from, per boundary kind
\* (periodic: copy the opposite interior edge; others: mirror)
SrcIndex(bc, k, lo, hi) ==
    IF k < lo THEN (IF bc = "periodic" THEN hi - (lo - 1 - k) ELSE lo + (lo - 1 - k))
    ELSE IF k > hi THEN (IF bc = "periodic" THEN lo + (k - hi - 1) ELSE hi - (k - hi - 1))
    ELSE k

\* homogeneous Dirichlet ghosts are the negated mirror value
GhostSign(bc, k, lo, hi, a) ==
    IF bc = "dirichlet" /\ (k < lo \/ k > hi) THEN RNeg(a) ELSE a

\* fillBC in x: every ghost column, over all j
FillX(g, bc, a) ==
    ArrayOf(g, LAMBDA i, j :
        GhostSign(bc, i, g.ilo, g.ihi, a[SrcIndex(bc, i, g.ilo, g.ihi)][j]))

\* fillBC in y: every ghost row, over all i
FillY(g, bc, a) ==
    ArrayOf(g, LAMBDA i, j :
        GhostSign(bc, j, g.jlo, g.jhi, a[i][SrcIndex(bc, j, g.jlo, g.jhi)]))

\* ccData2d.fillBC(name): x edges, then y edges
fillBC(g, bc, a) == FillY(g, bc, FillX(g, bc, a))

\* ccData2d.restrict(name): average of the four fine children, interior only
restrict(fg, cg, a) ==
    ArrayOf(cg, LAMBDA i, j :
        IF IsInterior(cg, i, j)
        THEN LET fi == fg.ilo + 2 * (i - cg.ilo)
                 fj == fg.jlo + 2 * (j - cg.jlo)
             IN  RMul(<<1, 4>>,
                      RAdd(RAdd(a[fi][fj], a[fi + 1][fj]),
                           RAdd(a[fi][fj + 1], a[fi + 1][fj + 1])))
        ELSE Zero)

\* ccData2d.prolong(name): every fine child takes its coarse parent's value
prolong(cg, fg, a) ==
    ArrayOf(fg, LAMBDA i, j :
        IF IsInterior(fg, i, j)
        THEN a[cg.ilo + ((i - fg.ilo) \div 2)][cg.jlo + ((j - fg.jlo) \div 2)]
        ELSE Zero)

\* elementwise sum of two arrays of one shape (numpy v += e)
ArrAdd(g, a, b) == ArrayOf(g, LAMBDA i, j : RAdd(a[i][j], b[i][j]))

RECURSIVE SumSq(_, _)
SumSq(a, cells) ==
    IF cells = {} THEN Zero
    ELSE LET c == CHOOSE x \in cells : TRUE
         IN  RAdd(RMul(a[c[1]][c[2]], a[c[1]][c[2]]), SumSq(a, cells \ {c}))

(***************************************************************************)
(* multigrid.py                                                            *)
(***************************************************************************)
\* error(myg, r) squared: dx*dy*sum(r**2) over the interior
error2(myg, r) == RMul(RMul(myg.dx, myg.dy), SumSq(r, Interior(myg)))

\* the 5-point Laplacian of v at (i, j)
Lap5(myg, v, i, j) ==
    RAdd(RDiv(RSub(RAdd(v[i - 1][j], v[i + 1][j]), RMul(Two, v[i][j])),
              RMul(myg.dx, myg.dx)),
         RDiv(RSub(RAdd(v[i][j - 1], v[i][j + 1]), RMul(Two, v[i][j])),
              RMul(myg.dy, myg.dy)))

\* r = f - alpha phi + beta L phi at one interior cell
ResidualCell(myg, alpha, beta, v, f, i, j) ==
    RAdd(RSub(f[i][j], RMul(alpha, v[i][j])), RMul(beta, Lap5(myg, v, i, j)))

\* computeResidual(level): writes the interior of r, leaves its ghosts
computeResidual(myg, alpha, beta, v, f, r) ==
    ArrayOf(myg, LAMBDA i, j :
        IF IsInterior(myg, i, j)
        THEN ResidualCell(myg, alpha, beta, v, f, i, j)
        ELSE r[i][j])

\* the cells of the slice [ilo+pi : ihi+1 : 2, jlo+pj : jhi+1 : 2]
InParity(myg, i, j, pi, pj) ==
    /\ IsInterior(myg, i, j)
    /\ i >= myg.ilo + pi /\ (i - myg.ilo - pi) % 2 = 0
    /\ j >= myg.jlo + pj /\ (j - myg.jlo - pj) % 2 = 0

\* xcoeff = beta/dx**2, ycoeff = beta/dy**2
xcoeffOf(myg, beta) == RDiv(beta, RMul(myg.dx, myg.dx))

ycoeffOf(myg, beta) == RDiv(beta, RMul(myg.dy, myg.dy))

\* the divisor of the update: alpha + 2.0*xcoeff + 2.0*ycoeff
DiagOf(myg, alpha, beta) ==
    RAdd(alpha, RAdd(RMul(Two, xcoeffOf(myg, beta)), RMul(Two, ycoeffOf(myg, beta))))

\* the update with the neighbour terms subtracted
RelaxCellFlipped(xcoeff, ycoeff, diag, v, f, i, j) ==
    RDiv(RSub(f[i][j],
              RAdd(RMul(xcoeff, RAdd(v[i + 1][j], v[i - 1][j])),
                   RMul(ycoeff, RAdd(v[i][j + 1], v[i][j - 1])))),
         diag)

\* the Gauss-Seidel update of one cell
RelaxCell(xcoeff, ycoeff, diag, v, f, i, j) ==
    RDiv(RAdd(f[i][j],
              RAdd(RMul(xcoeff, RAdd(v[i + 1][j], v[i - 1][j])),
                   RMul(ycoeff, RAdd(v[i][j + 1], v[i][j - 1])))),
         diag)

\* one of the four decoupled red-black groups
Sweep(myg, xcoeff, ycoeff, diag, v, f, pi, pj) ==
    ArrayOf(myg, LAMBDA i, j :
        IF InParity(myg, i, j, pi, pj)
        THEN RelaxCell(xcoeff, ycoeff, diag, v, f, i, j)
        ELSE v[i][j])

\* one pass of the while loop of smooth (each group is tabulated before
\* the next one reads it)
SmoothPass(myg, bc, xcoeff, ycoeff, diag, v, f) ==
    With(Sweep(myg, xcoeff, ycoeff, diag, v, f, 0, 0), LAMBDA v1 :
    With(Sweep(myg, xcoeff, ycoeff, diag, v1, f, 1, 1), LAMBDA v2 :
    With(fillBC(myg, bc, v2), LAMBDA b2 :
    With(Sweep(myg, xcoeff, ycoeff, diag, b2, f, 1, 0), LAMBDA v3 :
    With(Sweep(myg, xcoeff, ycoeff, diag, v3, f, 0, 1), LAMBDA v4 :
        IF v1 = v1 /\ v2 = v2 /\ b2 = b2 /\ v3 = v3 /\ v4 = v4
        THEN fillBC(myg, bc, v4)
        ELSE v)))))

RECURSIVE SmoothLoop(_, _, _, _, _, _, _, _)
SmoothLoop(myg, bc, xcoeff, ycoeff, diag, v, f, n) ==
    IF n <= 0 THEN v
    ELSE With(SmoothPass(myg, bc, xcoeff, ycoeff, diag, v, f), LAMBDA w :
            IF w = w THEN SmoothLoop(myg, bc, xcoeff, ycoeff, diag, w, f, n - 1)
            ELSE w)

\* smooth(level, nsmooth): fill the ghosts, then nsmooth red-black passes
smooth(myg, bc, alpha, beta, v, f, nsmooth) ==
    With(xcoeffOf(myg, beta), LAMBDA xcoeff :
    With(ycoeffOf(myg, beta), LAMBDA ycoeff :
    With(DiagOf(myg, alpha, beta), LAMBDA diag :
    With(fillBC(myg, bc, v), LAMBDA v0 :
        IF xcoeff = xcoeff /\ ycoeff = ycoeff /\ diag = diag /\ v0 = v0
        THEN SmoothLoop(myg, bc, xcoeff, ycoeff, diag, v0, f, nsmooth)
        ELSE v))))


(***************************************************************************)
(* ccMG2d: the solver object.  A level l of the hierarchy is grids[l],     *)
(* a record of its grid and its three arrays v, f, r; level 0 is the 1x1   *)
(* grid and level nlevels-1 the finest.                                    *)
(***************************************************************************)
nsmoothDefault == 10
maxCyclesDefault == 100
ngMG == 1

\* the constructor's 1.e33 for the two error diagnostics: larger than any
\* number the model computes, held as the top element
Huge33 == Inf

RECURSIVE ILog2(_)
ILog2(n) == IF n < 2 THEN 0 ELSE 1 + ILog2(n \div 2)

RECURSIVE Pow2(_)
Pow2(k) == IF k <= 0 THEN 1 ELSE 2 * Pow2(k - 1)

\* nlevels = int(math.log(nx)/math.log(2.0)) + 1
NLevels(nx) == ILog2(nx) + 1

\* one pass of the grid-creating while loop: a level with zeroed v, f, r
NewLevel(nx_t, ny_t, xmin, xmax, ymin, ymax) ==
    LET myGrid == Grid2d(nx_t, ny_t, ngMG, xmin, xmax, ymin, ymax)
    IN  [grid |-> myGrid,
         v |-> scratch_array(myGrid),
         f |-> scratch_array(myGrid),
         r |-> scratch_array(myGrid)]

\* what a name holds when the constructor raised: no solver object
NoMG ==
    [status |-> "none", nx |-> 0, ny |-> 0, bc |-> "none",
     alpha |-> Zero, beta |-> Zero, nsmooth |-> 0, maxCycles |-> 0,
     initializedSolution |-> 0, initializedRHS |-> 0,
     nlevels |-> 0, grids |-> << >>,
     sourceNorm |-> Zero, numCycles |-> 0,
     residualError |-> Huge33, relativeError |-> Huge33]

\* __init__ "return -1": Python raises TypeError for a constructor that
\* returns a value, so no object is built
CtorRejects(nx, ny, xmin, xmax, ymin, ymax) ==
    nx # ny \/ (xmax - xmin) # (ymax - ymin)

\* ccMG2d(nx, ny, xmin, xmax, ymin, ymax, BC types, alpha, beta)
ccMG2d(nx, ny, xmin, xmax, ymin, ymax, bc, alpha, beta) ==
    IF CtorRejects(nx, ny, xmin, xmax, ymin, ymax)
    THEN [NoMG EXCEPT !.status = "TypeError"]
    ELSE [status |-> "ok", nx |-> nx, ny |-> ny, bc |-> bc,
          alpha |-> alpha, beta |-> beta,
          nsmooth |-> nsmoothDefault, maxCycles |-> maxCyclesDefault,
          initializedSolution |-> 0, initializedRHS |-> 0,
          nlevels |-> NLevels(nx),
          grids |-> [l \in 0..(NLevels(nx) - 1) |->
                        NewLevel(Pow2(l), Pow2(l), xmin, xmax, ymin, ymax)],
          sourceNorm |-> Zero, numCycles |-> 0,
          residualError |-> Huge33, relativeError |-> Huge33]

Finest(m) == m.nlevels - 1

solnGrid(m) == m.grids[Finest(m)].grid

\* getSolution(): a copy of the finest v
getSolution(m) == m.grids[Finest(m)].v

\* initSolution(data): v[:,:] = data.copy()
initSolution(m, data) ==
    [m EXCEPT !.grids[Finest(m)].v = data, !.initializedSolution = 1]

\* initZeros()
initZeros(m) ==
    [m EXCEPT !.grids[Finest(m)].v = scratch_array(solnGrid(m)),
              !.initializedSolution = 1]

\* initRHS(data): f[:,:] = data.copy(), and the source norm
initRHS(m, data) ==
    [m EXCEPT !.grids[Finest(m)].f = data,
              !.sourceNorm = error2(solnGrid(m), data),
              !.initializedRHS = 1]

(***************************************************************************)
(* ccMG2d.solve, one step at a time.  A configuration c is a record of the *)
(* solver object (c.m) and of the locals of the running solve (c.fr):      *)
(* pc is the position in solve, cyclesRun counts the V-cycles that reached *)
(* the end of the loop body, entry is the solver object as solve found it. *)
(***************************************************************************)
IdleFrame ==
    [pc |-> "idle", rtol |-> Zero, cycle |-> 0, converged |-> 0, level |-> 0,
     oldSolution |-> << >>, cyclesRun |-> 0, error |-> "none", entry |-> NoMG,
     visits |-> << >>]

\* the initialization check without the RHS flag
NotInitializedSolutionOnly(m) == m.initializedSolution = 0

\* not self.initializedSolution or not self.initializedRHS
NotInitialized(m) == m.initializedSolution = 0 \/ m.initializedRHS = 0

\* solve(rtol) up to the while loop.  msg is not imported by multigrid.py,
\* so msg.fail(...) raises NameError: the call ends there either way.
SolveEnter(m, rtol) ==
    IF NotInitialized(m)
    THEN [m |-> m,
          fr |-> [IdleFrame EXCEPT !.pc = "raised", !.rtol = rtol,
                                   !.error = "NameError", !.entry = m]]
    ELSE [m |-> m,
          fr |-> [pc |-> "while", rtol |-> rtol, cycle |-> 1, converged |-> 0,
                  level |-> 0, oldSolution |-> getSolution(m),
                  cyclesRun |-> 0, error |-> "none", entry |-> m, visits |-> << >>]]

\* a loop test that stops one cycle early
LoopContinuesOffByOne(c) == c.fr.converged = 0 /\ c.fr.cycle < c.m.maxCycles

\* while (not converged and cycle <= self.maxCycles)
LoopContinues(c) == c.fr.converged = 0 /\ c.fr.cycle <= c.m.maxCycles

LoopTest(c) ==
    [c EXCEPT !.fr.pc = IF LoopContinues(c) THEN "zero" ELSE "returned"]

\* the zeroing loop run over every level, the finest included
ZeroEveryLevel(c) ==
    [m |-> [c.m EXCEPT !.grids =
                [l \in 0..(c.m.nlevels - 1) |->
                    [c.m.grids[l] EXCEPT !.v = scratch_array(c.m.grids[l].grid)]]],
     fr |-> [c.fr EXCEPT !.level = c.m.nlevels - 1,
                         !.visits = << >>,
                         !.pc = IF c.m.nlevels - 1 > 0 THEN "descend" ELSE "bottom"]]

\* zero out the solution on all but the finest grid; level = nlevels-1
ZeroCoarse(c) ==
    [m |-> [c.m EXCEPT !.grids =
                [l \in 0..(c.m.nlevels - 1) |->
                    IF l < c.m.nlevels - 1
                    THEN [c.m.grids[l] EXCEPT !.v = scratch_array(c.m.grids[l].grid)]
                    ELSE c.m.grids[l]]],
     fr |-> [c.fr EXCEPT !.level = c.m.nlevels - 1,
                         !.visits = << >>,
                         !.pc = IF c.m.nlevels - 1 > 0 THEN "descend" ELSE "bottom"]]

\* one pass of the descending loop at c.fr.level > 0
DescendStep(c) ==
    LET level == c.fr.level
        fP == c.m.grids[level]
        cP == c.m.grids[level - 1]
    IN  With(smooth(fP.grid, c.m.bc, c.m.alpha, c.m.beta, fP.v, fP.f, c.m.nsmooth),
             LAMBDA v1 :
        With(computeResidual(fP.grid, c.m.alpha, c.m.beta, v1, fP.f, fP.r),
             LAMBDA r1 :
        [m |-> [c.m EXCEPT !.grids[level].v = v1,
                           !.grids[level].r = r1,
                           !.grids[level - 1].f = restrict(fP.grid, cP.grid, r1)],
         fr |-> [c.fr EXCEPT !.level = level - 1,
                             !.visits = Append(@, <<"down", level>>),
                             !.pc = IF level - 1 > 0 THEN "descend" ELSE "bottom"]]))

\* v[bP.grid.ilo] = -0.125*f[bP.grid.ilo]*dx*dx: the whole row ilo
BottomRow(bP) ==
    ArrayOf(bP.grid, LAMBDA i, j :
        IF i = bP.grid.ilo
        THEN RMul(RMul(RMul(<<-1, 8>>, bP.f[i][j]), bP.grid.dx), bP.grid.dx)
        ELSE bP.v[i][j])

\* the bottom solve and its ghost fill; level = 1
BottomStep(c) ==
    LET bP == c.m.grids[0]
    IN  [m |-> [c.m EXCEPT !.grids[0].v = fillBC(bP.grid, c.m.bc, BottomRow(bP))],
         fr |-> [c.fr EXCEPT !.level = 1,
                             !.visits = Append(@, <<"bottom", 0>>),
                             !.pc = IF 1 < c.m.nlevels THEN "ascend" ELSE "diag"]]

\* the ascending pass with the smoothing done before the coarse correction
AscendStepSmoothFirst(c) ==
    LET level == c.fr.level
        fP == c.m.grids[level]
        cP == c.m.grids[level - 1]
        e == prolong(cP.grid, fP.grid, cP.v)
        v1 == smooth(fP.grid, c.m.bc, c.m.alpha, c.m.beta, fP.v, fP.f, c.m.nsmooth)
    IN  [m |-> [c.m EXCEPT !.grids[level].v = ArrAdd(fP.grid, v1, e)],
         fr |-> [c.fr EXCEPT !.level = level + 1,
                             !.visits = Append(@, <<"up", level>>),
                             !.pc = IF level + 1 < c.m.nlevels THEN "ascend" ELSE "diag"]]

\* one pass of the ascending loop at c.fr.level < nlevels
AscendStep(c) ==
    LET level == c.fr.level
        fP == c.m.grids[level]
        cP == c.m.grids[level - 1]
        e == prolong(cP.grid, fP.grid, cP.v)
        v1 == ArrAdd(fP.grid, fP.v, e)
    IN  [m |-> [c.m EXCEPT !.grids[level].v =
                    smooth(fP.grid, c.m.bc, c.m.alpha, c.m.beta, v1, fP.f, c.m.nsmooth)],
         fr |-> [c.fr EXCEPT !.level = level + 1,
                             !.visits = Append(@, <<"up", level>>),
                             !.pc = IF level + 1 < c.m.nlevels THEN "ascend" ELSE "diag"]]

\* (v - oldSolution)/(v + small) at one cell, small = 1.e-16: against a
\* nonzero v of the model small is lost; a quotient by small alone is out
\* of the model's range
RelChange(v, old) ==
    IF v = Zero THEN (IF old = Zero THEN Zero ELSE RMul(RNeg(old), Inf))
    ELSE RDiv(RSub(v, old), v)

\* the squared residual error of the finest level
ResidualError2(m, r) ==
    IF m.sourceNorm # Zero
    THEN RDiv(error2(solnGrid(m), r), m.sourceNorm)
    ELSE error2(solnGrid(m), r)

\* residualError < rtol, on the squares
ConvergedTest(resErr2, rtol) == RLt(resErr2, RMul(rtol, rtol))

\* self.numCycles = cycle, self.relativeError, self.residualError
StoreDiagnostics(m, cycle, relErr2, resErr2) ==
    [m EXCEPT !.numCycles = cycle,
              !.relativeError = relErr2,
              !.residualError = resErr2]

\* the end of the loop body: the diagnostics, the convergence test, cycle += 1.
\* fP was bound by the two loops; with nlevels = 1 neither ran and reading
\* fP raises UnboundLocalError after computeResidual has written r.
DiagStep(c) ==
    LET top == Finest(c.m)
        solnP == c.m.grids[top]
        diff == ArrayOf(solnP.grid, LAMBDA i, j :
                    RelChange(solnP.v[i][j], c.fr.oldSolution[i][j]))
    IN
    With(error2(solnP.grid, diff), LAMBDA relativeError :
    With(computeResidual(solnP.grid, c.m.alpha, c.m.beta, solnP.v, solnP.f, solnP.r),
         LAMBDA r1 :
    With([c.m EXCEPT !.grids[top].r = r1], LAMBDA m1 :
    With(ResidualError2(m1, r1), LAMBDA residualError :
        IF c.m.nlevels < 2
        THEN [m |-> m1,
              fr |-> [c.fr EXCEPT !.oldSolution = solnP.v, !.pc = "raised",
                                  !.error = "UnboundLocalError"]]
        ELSE IF ConvergedTest(residualError, c.fr.rtol)
        THEN [m |-> [StoreDiagnostics(m1, c.fr.cycle, relativeError, residualError)
                        EXCEPT !.grids[top].v = fillBC(solnP.grid, c.m.bc, solnP.v)],
              fr |-> [c.fr EXCEPT !.oldSolution = solnP.v, !.converged = 1,
                                  !.cycle = c.fr.cycle + 1,
                                  !.cyclesRun = c.fr.cyclesRun + 1,
                                  !.pc = "while"]]
        ELSE [m |-> m1,
              fr |-> [c.fr EXCEPT !.oldSolution = solnP.v,
                                  !.cycle = c.fr.cycle + 1,
                                  !.cyclesRun = c.fr.cyclesRun + 1,
                                  !.pc = "while"]]))))

\* the step of solve at the configuration's position
SolveStep(c) ==
    CASE c.fr.pc = "while" -> LoopTest(c)
      [] c.fr.pc = "zero" -> ZeroCoarse(c)
      [] c.fr.pc = "descend" -> DescendStep(c)
      [] c.fr.pc = "bottom" -> BottomStep(c)
      [] c.fr.pc = "ascend" -> AscendStep(c)
      [] c.fr.pc = "diag" -> DiagStep(c)
      [] OTHER -> c

SolveEnded(c) == c.fr.pc \in {"returned", "raised"}

\* solve(rtol) run to its end
RECURSIVE SolveRun(_)
SolveRun(c) ==
    IF SolveEnded(c) THEN c
    ELSE With(SolveStep(c), LAMBDA n : IF n = n THEN SolveRun(n) ELSE n)

solve(m, rtol) == SolveRun(SolveEnter(m, rtol))

(***************************************************************************)
(* Spec: one ccMG2d object driven through its API by a caller.             *)
(* The caller's inputs are drawn from small sets.  The boundary kind is    *)
(* periodic, as in every ccMG2d that simulation.py builds, alpha = 0 and   *)
(* beta = -1 are the constructor's defaults, verbose = 0.                  *)
(***************************************************************************)
MaxAmp == 1
RtolDen == 1000

NxChoices == {1, 2, 3, 4}
DomainLen == 4

\* the data a caller passes: a zero-ghost array of the finest grid's shape
DataArray(g, kind, amp) ==
    ArrayOf(g, LAMBDA i, j :
        IF ~IsInterior(g, i, j) THEN Zero
        ELSE IF kind = "const" THEN I2R(amp)
        ELSE I2R(IF (i + j) % 2 = 0 THEN amp ELSE -amp))

\* right-hand sides: on grids of 4x4 and more only data the periodic problem
\* can solve (a run to the cycle cap there is out of the checking budget)
RhsKinds(g) == IF g.nx >= 4 THEN {"checker"} ELSE {"checker", "const"}

RhsChoices(g) == {DataArray(g, k, a) : k \in RhsKinds(g), a \in 0..MaxAmp}

GuessChoices(g) == {DataArray(g, "checker", a) : a \in 0..MaxAmp}

RtolChoices == {<<1, RtolDen>>}

NoCtorCall == [nx |-> 0, ny |-> 0, xlen |-> 0, ylen |-> 0]

\* the Simulation is not part of this specification: no object, no run
SimIdle ==
    /\ rp = [limiter |-> 0, proj_type |-> 1, cfl |-> One]
    /\ store = << >>
    /\ cc_data = "None"
    /\ sim_pc = "off"
    /\ loc = << >>

Init ==
    /\ MG = NoMG
    /\ fr = IdleFrame
    /\ ctorCall = NoCtorCall
    /\ SimIdle
    /\ hist = << >>

CallerHolds == MG.status = "ok" /\ fr.pc \in {"idle", "raised"}

\* a = ccMG2d(nx, ny, xmin=0, xmax, ymin=0, ymax, periodic BCs)
Construct ==
    /\ MG.status = "none"
    /\ \E nx \in NxChoices, ny \in NxChoices, ymax \in {DomainLen, DomainLen + 1} :
          /\ ny \in {nx, nx + 1}
          /\ MG' = ccMG2d(nx, ny, 0, DomainLen, 0, ymax, "periodic", Zero, I2R(-1))
          /\ ctorCall' = [nx |-> nx, ny |-> ny, xlen |-> DomainLen, ylen |-> ymax]
    /\ fr' = IdleFrame
    /\ UNCHANGED simVars

InitZerosCall ==
    /\ CallerHolds
    /\ MG' = initZeros(MG)
    /\ fr' = IdleFrame
    /\ UNCHANGED <<ctorCall, simVars>>

InitSolutionCall ==
    /\ CallerHolds
    /\ \E data \in GuessChoices(solnGrid(MG)) : MG' = initSolution(MG, data)
    /\ fr' = IdleFrame
    /\ UNCHANGED <<ctorCall, simVars>>

InitRHSCall ==
    /\ CallerHolds
    /\ \E data \in RhsChoices(solnGrid(MG)) : MG' = initRHS(MG, data)
    /\ fr' = IdleFrame
    /\ UNCHANGED <<ctorCall, simVars>>

\* a.solve(rtol): the initialization check and the set-up of the loop
SolveCall ==
    /\ CallerHolds
    /\ \E rtol \in RtolChoices :
          \E c \in {SolveEnter(MG, rtol)} : MG' = c.m /\ fr' = c.fr
    /\ UNCHANGED <<ctorCall, simVars>>

\* the running solve takes the step at its position
Running(pos) == MG.status = "ok" /\ fr.pc = pos

Becomes(c) == MG' = c.m /\ fr' = c.fr /\ UNCHANGED <<ctorCall, simVars>>

WhileTest ==
    Running("while") /\ \E c \in {LoopTest([m |-> MG, fr |-> fr])} : Becomes(c)

ZeroCoarseLevels ==
    Running("zero") /\ \E c \in {ZeroCoarse([m |-> MG, fr |-> fr])} : Becomes(c)

Descend ==
    Running("descend") /\ \E c \in {DescendStep([m |-> MG, fr |-> fr])} : Becomes(c)

BottomSolve ==
    Running("bottom") /\ \E c \in {BottomStep([m |-> MG, fr |-> fr])} : Becomes(c)

Ascend ==
    Running("ascend") /\ \E c \in {AscendStep([m |-> MG, fr |-> fr])} : Becomes(c)

Diagnose ==
    Running("diag") /\ \E c \in {DiagStep([m |-> MG, fr |-> fr])} : Becomes(c)

\* the caller drops the object (or the name the failed constructor left unbound)
Discard ==
    /\ \/ MG.status = "TypeError"
       \/ MG.status = "ok" /\ fr.pc \in {"idle", "raised", "returned"}
    /\ MG' = NoMG
    /\ fr' = IdleFrame
    /\ ctorCall' = NoCtorCall
    /\ UNCHANGED simVars

Next ==
    \/ Construct
    \/ InitZerosCall
    \/ InitSolutionCall
    \/ InitRHSCall
    \/ SolveCall
    \/ WhileTest
    \/ ZeroCoarseLevels
    \/ Descend
    \/ BottomSolve
    \/ Ascend
    \/ Diagnose
    \/ Discard

Spec == Init /\ [][Next]_vars

\* a solve call is running: the caller waits
InSolve == MG.status = "ok" /\ fr.pc \notin {"idle", "returned", "raised"}

\* the steps solve has left at most: the cycles the loop test still allows,
\* each of 2*nlevels + 4 positions, and the position within the cycle
PosRank(m, f) ==
    CASE f.pc = "while" -> 2 * m.nlevels + 3
      [] f.pc = "zero" -> 2 * m.nlevels + 2
      [] f.pc = "descend" -> m.nlevels + 1 + f.level
      [] f.pc = "bottom" -> m.nlevels + 1
      [] f.pc = "ascend" -> m.nlevels + 1 - f.level
      [] f.pc = "diag" -> 1
      [] OTHER -> 0

Rank(m, f) ==
    IF f.pc \in {"idle", "returned", "raised"} THEN 0
    ELSE (m.maxCycles + 1 - f.cycle) * (2 * m.nlevels + 4) + PosRank(m, f)

IsPow2(n) == n >= 1 /\ Pow2(ILog2(n)) = n

(***************************************************************************)
(* Claims on the solver                                                    *)
(***************************************************************************)
\* C1: a solve() called while initSolution/initZeros or initRHS has not been
\* called since construction fails at the initialization check, before any
\* V-cycle starts, and leaves every level's v, f, r and the diagnostics as
\* they were at the call.
C1_UninitializedSolveFails ==
    (fr.pc # "idle" /\ (fr.entry.initializedSolution = 0 \/ fr.entry.initializedRHS = 0))
        => /\ fr.pc = "raised"
           /\ fr.error = "NameError"
           /\ fr.cyclesRun = 0
           /\ MG = fr.entry

C1_Witness ==
    /\ fr.pc = "raised"
    /\ fr.error = "NameError"
    /\ fr.entry.initializedSolution = 1
    /\ fr.entry.initializedRHS = 0
    /\ MG = fr.entry

C2_Safety ==
    (MG.status = "ok" /\ fr.pc # "idle" /\ fr.error # "NameError") =>
        /\ fr.pc \in {"while", "zero", "descend", "bottom", "ascend", "diag",
                      "returned", "raised"}
        /\ fr.cyclesRun <= MG.maxCycles
        /\ fr.cycle = fr.cyclesRun + 1
        /\ fr.converged = 1 =>
              /\ fr.pc \in {"while", "returned"}
              /\ MG.numCycles = fr.cyclesRun
              /\ ConvergedTest(MG.residualError, fr.rtol)
        /\ fr.pc = "returned" => (fr.converged = 1 \/ fr.cyclesRun = MG.maxCycles)

C3_NonConvergenceReported ==
    (MG.status = "ok" /\ fr.pc = "returned" /\ fr.converged = 0) =>
        /\ MG.numCycles = fr.cyclesRun
        /\ MG.residualError # fr.entry.residualError
        /\ MG.relativeError # fr.entry.relativeError

\* C7: a constructor call with nx # ny, a non-square domain or an nx that is
\* no power of two builds no hierarchy; a hierarchy that was built has a
\* finest level of nx by nx interior cells.
C7_CtorRejectsBadShape ==
    MG.status = "ok" =>
        /\ ctorCall.nx = ctorCall.ny
        /\ ctorCall.xlen = ctorCall.ylen
        /\ IsPow2(ctorCall.nx)
        /\ solnGrid(MG).nx = ctorCall.nx
        /\ solnGrid(MG).ny = ctorCall.nx

\* a V-cycle is about to start: the zeroing loop has run, no level visited yet
StartOfCycle ==
    MG.status = "ok" /\ fr.pc \in {"descend", "bottom"} /\ fr.visits = << >>

\* C15: at the start of every V-cycle v is zero on every level 0 .. L-2, and
\* the finest v is not reset: in cycle 1 it is the guess given before the
\* call, in cycle k+1 the finest v cycle k ended with (which solve copied
\* into oldSolution when cycle k ended).
C15_CoarseZeroFinestKept ==
    StartOfCycle =>
        /\ \A l \in 0..(MG.nlevels - 2) : MG.grids[l].v = scratch_array(MG.grids[l].grid)
        /\ fr.cycle = 1 => MG.grids[Finest(MG)].v = fr.entry.grids[Finest(MG)].v
        /\ fr.cycle > 1 => MG.grids[Finest(MG)].v = fr.oldSolution

C15_Witness ==
    /\ StartOfCycle
    /\ MG.nlevels = 2
    /\ fr.cycle = 2
    /\ MG.grids[1].v # fr.entry.grids[1].v
    /\ MG.grids[1].v # scratch_array(MG.grids[1].grid)

\* C19: for every hierarchy depth L >= 1, the single level of nx = 1
\* included, a V-cycle of an initialized solve completes without an internal
\* error: a solve that raised was called on an uninitialized solver.
C19_EveryDepthCompletes ==
    (MG.status = "ok" /\ fr.pc = "raised") => NotInitialized(fr.entry)

(***************************************************************************)
(* SpecSmooth: computeResidual(level) and smooth(level, nsmooth) called on *)
(* one level of a hierarchy whose v and f a caller has set.  The operator  *)
(* coefficients, the boundary kind, the level and the fields are drawn     *)
(* from small sets; hist records the stage of the experiment, the field    *)
(* before smoothing and whether computeResidual found it residual-free.    *)
(***************************************************************************)
MaxSmooth == 2

AlphaChoices == {Zero, One, I2R(4)}
BetaChoices == {I2R(-1), Zero, One}
BcChoices == {"periodic", "dirichlet", "neumann"}
FieldKinds == {"const", "checker", "ramp"}

\* the interior of a field, ghosts zero
FieldArray(g, kind, amp) ==
    ArrayOf(g, LAMBDA i, j :
        IF ~IsInterior(g, i, j) THEN Zero
        ELSE IF kind = "const" THEN I2R(amp)
        ELSE IF kind = "checker" THEN I2R(IF (i + j) % 2 = 0 THEN amp ELSE -amp)
        ELSE I2R(amp * (i - g.ilo) + j - g.jlo))

\* the right-hand side that v solves, alpha v - beta L v, plus an offset
RhsFor(myg, alpha, beta, v, offset) ==
    ArrayOf(myg, LAMBDA i, j :
        IF IsInterior(myg, i, j)
        THEN RAdd(RSub(RMul(alpha, v[i][j]), RMul(beta, Lap5(myg, v, i, j))),
                  I2R(offset))
        ELSE Zero)

ZeroInside(myg, r) == \A c \in Interior(myg) : r[c[1]][c[2]] = Zero

SameInside(myg, a, b) == \A c \in Interior(myg) : a[c[1]][c[2]] = b[c[1]][c[2]]

NoSmoothCall ==
    [stage |-> "new", level |-> 0, nsmooth |-> 0, before |-> << >>, rzero |-> FALSE]

InitSmooth ==
    /\ \E alpha \in AlphaChoices, beta \in BetaChoices, bc \in BcChoices :
          MG = ccMG2d(DomainLen, DomainLen, 0, DomainLen, 0, DomainLen, bc, alpha, beta)
    /\ fr = IdleFrame
    /\ ctorCall = [nx |-> DomainLen, ny |-> DomainLen,
                   xlen |-> DomainLen, ylen |-> DomainLen]
    /\ SimIdle
    /\ hist = NoSmoothCall

\* the caller writes a ghost-filled v and a right-hand side on one level
SetLevelFields ==
    /\ hist.stage = "new"
    /\ \E level \in 0..(MG.nlevels - 1), kind \in FieldKinds,
          amp \in 1..MaxAmp, offset \in {0, 1} :
          \E v \in {fillBC(MG.grids[level].grid, MG.bc,
                           FieldArray(MG.grids[level].grid, kind, amp))} :
             /\ MG' = [MG EXCEPT !.grids[level].v = v,
                                 !.grids[level].f =
                                     RhsFor(MG.grids[level].grid, MG.alpha, MG.beta,
                                            v, offset)]
             /\ hist' = [hist EXCEPT !.stage = "set", !.level = level]
    /\ UNCHANGED <<fr, ctorCall, rp, store, cc_data, sim_pc, loc>>

\* a.computeResidual(level)
ComputeResidualCall ==
    /\ hist.stage = "set"
    /\ \E r \in {computeResidual(MG.grids[hist.level].grid, MG.alpha, MG.beta,
                                 MG.grids[hist.level].v, MG.grids[hist.level].f,
                                 MG.grids[hist.level].r)} :
          /\ MG' = [MG EXCEPT !.grids[hist.level].r = r]
          /\ hist' = [hist EXCEPT !.stage = "checked",
                                  !.rzero = ZeroInside(MG.grids[hist.level].grid, r)]
    /\ UNCHANGED <<fr, ctorCall, rp, store, cc_data, sim_pc, loc>>

\* a.smooth(level, nsmooth)
SmoothCall ==
    /\ hist.stage = "checked"
    /\ \E nsmooth \in 0..MaxSmooth :
          /\ MG' = [MG EXCEPT !.grids[hist.level].v =
                        smooth(MG.grids[hist.level].grid, MG.bc, MG.alpha, MG.beta,
                               MG.grids[hist.level].v, MG.grids[hist.level].f, nsmooth)]
          /\ hist' = [hist EXCEPT !.stage = "smoothed", !.nsmooth = nsmooth,
                                  !.before = MG.grids[hist.level].v]
    /\ UNCHANGED <<fr, ctorCall, rp, store, cc_data, sim_pc, loc>>

NextSmooth ==
    \/ SetLevelFields
    \/ ComputeResidualCall
    \/ SmoothCall

SpecSmooth == InitSmooth /\ [][NextSmooth]_vars

\* C5 as stated: smooth leaves every interior value of a residual-free field
\* unchanged, for every level, alpha, beta and nsmooth.
C5_SmoothKeepsSolution ==
    (hist.stage = "smoothed" /\ hist.rzero) =>
        SameInside(MG.grids[hist.level].grid, MG.grids[hist.level].v, hist.before)

\* C5, amended: smooth leaves every interior value of a residual-free field
\* unchanged for every level and nsmooth, provided the divisor of the update,
\* alpha + 2 beta/dx^2 + 2 beta/dy^2, is not zero on that level.
C5_SmoothKeepsSolutionNonzeroDiag ==
    (/\ hist.stage = "smoothed"
     /\ hist.rzero
     /\ RAdd(MG.alpha,
             RAdd(RDiv(RMul(Two, MG.beta),
                       RMul(MG.grids[hist.level].grid.dx, MG.grids[hist.level].grid.dx)),
                  RDiv(RMul(Two, MG.beta),
                       RMul(MG.grids[hist.level].grid.dy, MG.grids[hist.level].grid.dy))))
            # Zero)
        => SameInside(MG.grids[hist.level].grid, MG.grids[hist.level].v, hist.before)

C5_Witness ==
    /\ hist.stage = "smoothed"
    /\ hist.rzero
    /\ hist.nsmooth = MaxSmooth
    /\ hist.level = MG.nlevels - 1
    /\ MG.alpha = One /\ MG.beta = I2R(-1)
    /\ MG.bc = "dirichlet"
    /\ ~SameInside(MG.grids[hist.level].grid, hist.before,
                   scratch_array(MG.grids[hist.level].grid))
    /\ SameInside(MG.grids[hist.level].grid, MG.grids[hist.level].v, hist.before)

(***************************************************************************)
(* SpecSweep: one call smooth(level, nsmooth) taken statement by           *)
(* statement.  fr holds the locals of the call: the position, the pass     *)
(* counter i, and what an observer of the call records (the operations in  *)
(* order, the ghost fills counted, how often the current pass has written  *)
(* each interior cell).                                                    *)
(***************************************************************************)
\* the slice offsets of the four groups with the last two exchanged
GroupParityExchanged(pc) ==
    IF pc = "ee" THEN <<0, 0>>
    ELSE IF pc = "oo" THEN <<1, 1>>
    ELSE IF pc = "oe" THEN <<0, 1>>
    ELSE <<1, 0>>

\* the slice offsets of the four groups: [ilo::2, jlo::2], [ilo+1::2, jlo+1::2],
\* [ilo+1::2, jlo::2], [ilo::2, jlo+1::2]
GroupParity(pc) ==
    IF pc = "ee" THEN <<0, 0>>
    ELSE IF pc = "oo" THEN <<1, 1>>
    ELSE IF pc = "oe" THEN <<1, 0>>
    ELSE <<0, 1>>

\* the statement after the one at pc
AfterGroup(pc, i, nsmooth) ==
    IF pc = "ee" THEN "oo"
    ELSE IF pc = "oo" THEN "fill1"
    ELSE IF pc = "fill1" THEN "oe"
    ELSE IF pc = "oe" THEN "eo"
    ELSE IF pc = "eo" THEN "fill2"
    ELSE IF i < nsmooth THEN "ee" ELSE "return"

\* smooth(level, nsmooth) up to the while loop: the first ghost fill
SmoothBegin ==
    /\ hist.stage = "set"
    /\ \E nsmooth \in 0..MaxSmooth :
          /\ fr' = [pc |-> AfterGroup("fill2", 0, nsmooth), i |-> 0,
                    nsmooth |-> nsmooth, ops |-> <<"fillBC">>, fills |-> 1,
                    touched |-> [c \in Interior(MG.grids[hist.level].grid) |-> 0]]
          /\ hist' = [hist EXCEPT !.stage = "smoothing", !.nsmooth = nsmooth,
                                  !.before = MG.grids[hist.level].v]
    /\ MG' = [MG EXCEPT !.grids[hist.level].v =
                 fillBC(MG.grids[hist.level].grid, MG.bc, MG.grids[hist.level].v)]
    /\ UNCHANGED <<ctorCall, rp, store, cc_data, sim_pc, loc>>

\* one of the four slice assignments of a pass
SmoothGroup ==
    /\ hist.stage = "smoothing"
    /\ fr.pc \in {"ee", "oo", "oe", "eo"}
    /\ \E myg \in {MG.grids[hist.level].grid} :
          /\ MG' = [MG EXCEPT !.grids[hist.level].v =
                       Sweep(myg, xcoeffOf(myg, MG.beta), ycoeffOf(myg, MG.beta),
                             DiagOf(myg, MG.alpha, MG.beta),
                             MG.grids[hist.level].v, MG.grids[hist.level].f,
                             GroupParity(fr.pc)[1], GroupParity(fr.pc)[2])]
          /\ fr' = [fr EXCEPT
                      !.pc = AfterGroup(fr.pc, fr.i, fr.nsmooth),
                      !.ops = Append(@, fr.pc),
                      !.touched =
                          [c \in Interior(myg) |->
                              (IF fr.pc = "ee" THEN 0 ELSE fr.touched[c])
                              + (IF InParity(myg, c[1], c[2], GroupParity(fr.pc)[1],
                                             GroupParity(fr.pc)[2])
                                 THEN 1 ELSE 0)]]
    /\ UNCHANGED <<ctorCall, rp, store, cc_data, sim_pc, loc, hist>>

\* self.grids[level].fillBC("v") inside the pass; after the second one i += 1
SmoothFill ==
    /\ hist.stage = "smoothing"
    /\ fr.pc \in {"fill1", "fill2"}
    /\ MG' = [MG EXCEPT !.grids[hist.level].v =
                 fillBC(MG.grids[hist.level].grid, MG.bc, MG.grids[hist.level].v)]
    /\ fr' = [fr EXCEPT
                !.i = IF fr.pc = "fill2" THEN fr.i + 1 ELSE fr.i,
                !.pc = AfterGroup(fr.pc, IF fr.pc = "fill2" THEN fr.i + 1 ELSE fr.i,
                                  fr.nsmooth),
                !.ops = Append(@, "fillBC"),
                !.fills = fr.fills + 1]
    /\ UNCHANGED <<ctorCall, rp, store, cc_data, sim_pc, loc, hist>>

\* the while test fails: smooth returns
SmoothReturn ==
    /\ hist.stage = "smoothing"
    /\ fr.pc = "return"
    /\ hist' = [hist EXCEPT !.stage = "smoothed"]
    /\ UNCHANGED <<MG, fr, ctorCall, rp, store, cc_data, sim_pc, loc>>

NextSweep ==
    \/ SetLevelFields
    \/ SmoothBegin
    \/ SmoothGroup
    \/ SmoothFill
    \/ SmoothReturn

SpecSweep == InitSmooth /\ [][NextSweep]_vars

\* the operations of a call with n passes
RECURSIVE ExpectedOps(_)
ExpectedOps(n) ==
    IF n <= 0 THEN <<"fillBC">>
    ELSE ExpectedOps(n - 1) \o <<"ee", "oo", "fillBC", "oe", "eo", "fillBC">>

\* the cells of one parity of (i - ilo, j - jlo)
OfParity(myg, c, pi, pj) ==
    (c[1] - myg.ilo) % 2 = pi /\ (c[2] - myg.jlo) % 2 = pj

\* the number of groups of the current pass that have written cell c: those
\* of the groups already executed whose parity is that of c
WritesSoFar(myg, c, pc) ==
    IF pc = "oo" THEN (IF OfParity(myg, c, 0, 0) THEN 1 ELSE 0)
    ELSE IF pc \in {"fill1", "oe"}
    THEN (IF OfParity(myg, c, 0, 0) \/ OfParity(myg, c, 1, 1) THEN 1 ELSE 0)
    ELSE IF pc = "eo" THEN (IF OfParity(myg, c, 0, 1) THEN 0 ELSE 1)
    ELSE 1

\* C14: one call smooth(level, nsmooth) fills the ghosts of v, then makes
\* nsmooth passes, each one: the cells of parity (even, even), then (odd,
\* odd), ghost fill, then (odd, even), then (even, odd), ghost fill; that is
\* 1 + 2 nsmooth ghost fills, and a pass writes every interior cell exactly
\* once.
C14_SmoothPassStructure ==
    hist.stage \in {"smoothing", "smoothed"} =>
        /\ fr.ops = SubSeq(ExpectedOps(hist.nsmooth), 1, Len(fr.ops))
        /\ (fr.i > 0 \/ fr.pc # "ee" \/ hist.nsmooth = 0) =>
              \A c \in Interior(MG.grids[hist.level].grid) :
                 fr.touched[c] =
                    (IF hist.nsmooth = 0 THEN 0
                     ELSE WritesSoFar(MG.grids[hist.level].grid, c, fr.pc))
        /\ fr.pc = "return" =>
              /\ fr.ops = ExpectedOps(hist.nsmooth)
              /\ fr.fills = 1 + 2 * hist.nsmooth
              /\ fr.i = hist.nsmooth
              /\ MG.grids[hist.level].v =
                    smooth(MG.grids[hist.level].grid, MG.bc, MG.alpha, MG.beta,
                           hist.before, MG.grids[hist.level].f, hist.nsmooth)

C14_Witness ==
    /\ hist.stage = "smoothed"
    /\ hist.nsmooth = MaxSmooth
    /\ hist.level = MG.nlevels - 1
    /\ fr.fills = 1 + 2 * MaxSmooth
    /\ \A c \in Interior(MG.grids[hist.level].grid) : fr.touched[c] = 1
    /\ MG.grids[hist.level].v # hist.before

(***************************************************************************)
(* simulation.py: class Simulation.  A CellCenterData2d object is a record *)
(* of its grid and its six arrays; store maps an object's identity to the  *)
(* object, so that two names for one object and two equal objects differ.  *)
(* simulation.py addresses the solver of multigrid.py by the names         *)
(* CellCenterMG2d, init_zeros, init_RHS, init_solution, get_solution,      *)
(* soln_grid: the operators of ccMG2d above stand for them.                *)
(***************************************************************************)
ngSim == 4

DataIds == {"d0", "d1"}

NoData == [live |-> FALSE]

\* my_data.create(): every registered variable zeroed
CellCenterData2d(my_grid) ==
    [live |-> TRUE, grid |-> my_grid, t |-> Zero,
     u |-> scratch_array(my_grid), v |-> scratch_array(my_grid),
     phi_MAC |-> scratch_array(my_grid), phi |-> scratch_array(my_grid),
     gradp_x |-> scratch_array(my_grid), gradp_y |-> scratch_array(my_grid)]

\* patch.cell_center_data_clone(old): a new object with a copy of every array
cell_center_data_clone(old) == old

\* a - b and a + b on whole arrays (numpy a[:,:] -= b, a[:,:] += b)
ArrSub(g, a, b) == ArrayOf(g, LAMBDA i, j : RSub(a[i][j], b[i][j]))

\* k * a for a scalar k
ArrScale(g, k, a) == ArrayOf(g, LAMBDA i, j : RMul(k, a[i][j]))

\* the centered difference with the neighbours added instead of subtracted
DivCellSum(myg, u, v, i, j) ==
    RAdd(RDiv(RMul(Half, RAdd(u[i + 1][j], u[i - 1][j])), myg.dx),
         RDiv(RMul(Half, RAdd(v[i][j + 1], v[i][j - 1])), myg.dy))

\* 0.5*(u[i+1,j] - u[i-1,j])/dx + 0.5*(v[i,j+1] - v[i,j-1])/dy
DivCell(myg, u, v, i, j) ==
    RAdd(RDiv(RMul(Half, RSub(u[i + 1][j], u[i - 1][j])), myg.dx),
         RDiv(RMul(Half, RSub(v[i][j + 1], v[i][j - 1])), myg.dy))

\* divU[MG.ilo:MG.ihi+1, MG.jlo:MG.jhi+1] = <centered divergence of (u, v)>;
\* the rest of divU keeps its values
CenteredDivU(mgg, myg, u, v, divU) ==
    ArrayOf(mgg, LAMBDA i, j :
        IF IsInterior(mgg, i, j)
        THEN DivCell(myg, u, v, myg.ilo + (i - mgg.ilo), myg.jlo + (j - mgg.jlo))
        ELSE divU[i][j])

\* phi[ilo-1:ihi+2, jlo-1:jhi+2] = solution[MG.ilo-1:MG.ihi+2, MG.jlo-1:MG.jhi+2]
CopyWithOneGhost(tg, sg, target, source) ==
    ArrayOf(tg, LAMBDA i, j :
        IF i >= tg.ilo - 1 /\ i <= tg.ihi + 1 /\ j >= tg.jlo - 1 /\ j <= tg.jhi + 1
        THEN source[sg.ilo + (i - tg.ilo)][sg.jlo + (j - tg.jlo)]
        ELSE target[i][j])

\* a scratch array with 0.5*(phi[i+1,j] - phi[i-1,j])/dx in its interior
GradX(myg, phi) ==
    ArrayOf(myg, LAMBDA i, j :
        IF IsInterior(myg, i, j)
        THEN RDiv(RMul(Half, RSub(phi[i + 1][j], phi[i - 1][j])), myg.dx)
        ELSE Zero)

\* a scratch array with 0.5*(phi[i,j+1] - phi[i,j-1])/dy in its interior
GradY(myg, phi) ==
    ArrayOf(myg, LAMBDA i, j :
        IF IsInterior(myg, i, j)
        THEN RDiv(RMul(Half, RSub(phi[i][j + 1], phi[i][j - 1])), myg.dy)
        ELSE Zero)

AllCells(g) == (0..(g.qx - 1)) \X (0..(g.qy - 1))

\* the least element of a nonempty finite set of numbers
RMinOf(S) == CHOOSE m \in S : \A x \in S : RLe(m, x)

\* timestep(): cfl*min((dx/abs(u)).min(), (dy/abs(v)).min()), over whole arrays
timestep(cfl, d) ==
    RMul(cfl,
         RMinOf({RDiv(d.grid.dx, RAbs(d.u[c[1]][c[2]])) : c \in AllCells(d.grid)}
                \cup {RDiv(d.grid.dy, RAbs(d.v[c[1]][c[2]])) : c \in AllCells(d.grid)}))

\* MG = CellCenterMG2d(myg.nx, myg.ny, periodic on the four edges,
\*                     xmin=myg.xmin, ..., verbose=0): alpha, beta by default
NewPeriodicMG(myg) ==
    ccMG2d(myg.nx, myg.ny, myg.xmin, myg.xmax, myg.ymin, myg.ymax,
           "periodic", Zero, I2R(-1))

\* the solves of simulation.py ask for rtol = 1.e-10 and 1.e-12; the model's
\* solves all use the tolerance 1/RtolDen
RtolSim == <<1, RtolDen>>

\* the initial projection without the ghost fill after the velocity update
InitialProjectionNoRefill(d) ==
    With(fillBC(d.grid, "periodic", d.u), LAMBDA u :
    With(fillBC(d.grid, "periodic", d.v), LAMBDA v :
    With(NewPeriodicMG(d.grid), LAMBDA m0 :
    With(solve(initRHS(initZeros(m0),
                       CenteredDivU(solnGrid(m0), d.grid, u, v,
                                    scratch_array(solnGrid(m0)))),
               RtolSim), LAMBDA c :
    With(CopyWithOneGhost(d.grid, solnGrid(c.m), d.phi, getSolution(c.m)), LAMBDA phi :
        [d |-> [d EXCEPT !.phi = phi,
                         !.u = ArrSub(d.grid, u, GradX(d.grid, phi)),
                         !.v = ArrSub(d.grid, v, GradY(d.grid, phi))],
         c |-> c])))))

\* preevolve, step 1: the initial projection of d (fill_BC, the solve of
\* L phi = D U from a zero guess, phi, the gradient, the update, fill_BC).
\* Gives the object after the step and the solver as the solve left it.
InitialProjection(d) ==
    With(fillBC(d.grid, "periodic", d.u), LAMBDA u :
    With(fillBC(d.grid, "periodic", d.v), LAMBDA v :
    With(NewPeriodicMG(d.grid), LAMBDA m0 :
    With(solve(initRHS(initZeros(m0),
                       CenteredDivU(solnGrid(m0), d.grid, u, v,
                                    scratch_array(solnGrid(m0)))),
               RtolSim), LAMBDA c :
    With(CopyWithOneGhost(d.grid, solnGrid(c.m), d.phi, getSolution(c.m)), LAMBDA phi :
        [d |-> [d EXCEPT !.phi = phi,
                         !.u = fillBC(d.grid, "periodic",
                                      ArrSub(d.grid, u, GradX(d.grid, phi))),
                         !.v = fillBC(d.grid, "periodic",
                                      ArrSub(d.grid, v, GradY(d.grid, phi)))],
         c |-> c])))))

\* the limiter selection of evolve
limitFunc(limiter) ==
    IF limiter = 0 THEN "nolimit"
    ELSE IF limiter = 1 THEN "limit2"
    ELSE "limit4"

(***************************************************************************)
(* incomp_interface_f.mac_vels and incomp_interface_f.states are compiled  *)
(* kernels outside the sources, black boxes of known signature.  The model *)
(* draws what they return from a few edge fields (a kernel case):          *)
(*   still    no normal velocity, no edge states                           *)
(*   uniform  u_MAC = 1, v_MAC = 0, edge states the cell values            *)
(*   checker  u_MAC = (-1)^(i+j), v_MAC = 0, edge states the cell values   *)
(***************************************************************************)
KernelCases == {"still", "uniform", "checker"}

mac_vels(k, d) ==
    [u_MAC |-> ArrayOf(d.grid, LAMBDA i, j :
                   IF k = "uniform" THEN One
                   ELSE IF k = "checker" THEN I2R(IF (i + j) % 2 = 0 THEN 1 ELSE -1)
                   ELSE Zero),
     v_MAC |-> scratch_array(d.grid)]

states(k, d, u_MAC, v_MAC) ==
    IF k = "still"
    THEN [u_xint |-> scratch_array(d.grid), v_xint |-> scratch_array(d.grid),
          u_yint |-> scratch_array(d.grid), v_yint |-> scratch_array(d.grid)]
    ELSE [u_xint |-> d.u, v_xint |-> d.v, u_yint |-> d.u, v_yint |-> d.v]

\* divU of the MAC velocities: one-sided differences of the edge values
MacDivU(mgg, myg, u_MAC, v_MAC) ==
    ArrayOf(mgg, LAMBDA i, j :
        IF IsInterior(mgg, i, j)
        THEN With(myg.ilo + (i - mgg.ilo), LAMBDA fi :
             With(myg.jlo + (j - mgg.jlo), LAMBDA fj :
                RAdd(RDiv(RSub(u_MAC[fi + 1][fj], u_MAC[fi][fj]), myg.dx),
                     RDiv(RSub(v_MAC[fi][fj + 1], v_MAC[fi][fj]), myg.dy))))
        ELSE Zero)

\* the correction of u_MAC left out
MacCorrectUSkipped(myg, u_MAC, phi_MAC) == u_MAC

\* u_MAC[ilo:ihi+2, jlo:jhi+1] -= (phi_MAC[i,j] - phi_MAC[i-1,j])/dx
MacCorrectU(myg, u_MAC, phi_MAC) ==
    ArrayOf(myg, LAMBDA i, j :
        IF i >= myg.ilo /\ i <= myg.ihi + 1 /\ j >= myg.jlo /\ j <= myg.jhi
        THEN RSub(u_MAC[i][j], RDiv(RSub(phi_MAC[i][j], phi_MAC[i - 1][j]), myg.dx))
        ELSE u_MAC[i][j])

\* the correction of v_MAC without the last face jhi+1
MacCorrectVInnerFaces(myg, v_MAC, phi_MAC) ==
    ArrayOf(myg, LAMBDA i, j :
        IF i >= myg.ilo /\ i <= myg.ihi /\ j >= myg.jlo /\ j <= myg.jhi
        THEN RSub(v_MAC[i][j], RDiv(RSub(phi_MAC[i][j], phi_MAC[i][j - 1]), myg.dy))
        ELSE v_MAC[i][j])

\* v_MAC[ilo:ihi+1, jlo:jhi+2] -= (phi_MAC[i,j] - phi_MAC[i,j-1])/dy
MacCorrectV(myg, v_MAC, phi_MAC) ==
    ArrayOf(myg, LAMBDA i, j :
        IF i >= myg.ilo /\ i <= myg.ihi /\ j >= myg.jlo /\ j <= myg.jhi + 1
        THEN RSub(v_MAC[i][j], RDiv(RSub(phi_MAC[i][j], phi_MAC[i][j - 1]), myg.dy))
        ELSE v_MAC[i][j])

\* evolve: the MAC projection (the solve from a zero guess, phi-MAC, the
\* correction of the MAC velocities)
MacProjection(d, u_MAC, v_MAC) ==
    With(NewPeriodicMG(d.grid), LAMBDA m0 :
    With(MacDivU(solnGrid(m0), d.grid, u_MAC, v_MAC), LAMBDA divU :
    With(solve(initRHS(initZeros(m0), divU), RtolSim), LAMBDA c :
    With(CopyWithOneGhost(d.grid, solnGrid(c.m), d.phi_MAC, getSolution(c.m)),
         LAMBDA phi_MAC :
        [d |-> [d EXCEPT !.phi_MAC = phi_MAC],
         u_MAC |-> MacCorrectU(d.grid, u_MAC, phi_MAC),
         v_MAC |-> MacCorrectV(d.grid, v_MAC, phi_MAC),
         divU |-> divU,
         c |-> c]))))

\* advect_x or advect_y: 0.5*(u_MAC[i,j] + u_MAC[i+1,j])*(xint[i+1,j] - xint[i,j])/dx
\*                     + 0.5*(v_MAC[i,j] + v_MAC[i,j+1])*(yint[i,j+1] - yint[i,j])/dy
Advect(myg, u_MAC, v_MAC, xint, yint) ==
    ArrayOf(myg, LAMBDA i, j :
        IF IsInterior(myg, i, j)
        THEN RAdd(RDiv(RMul(RMul(Half, RAdd(u_MAC[i][j], u_MAC[i + 1][j])),
                            RSub(xint[i + 1][j], xint[i][j])), myg.dx),
                  RDiv(RMul(RMul(Half, RAdd(v_MAC[i][j], v_MAC[i][j + 1])),
                            RSub(yint[i][j + 1], yint[i][j])), myg.dy))
        ELSE Zero)

\* the provisional update of one component, by proj_type
Provisional(proj_type, myg, dt, u, advect, gradp) ==
    IF proj_type = 1
    THEN ArrSub(myg, u, ArrAdd(myg, ArrScale(myg, dt, advect), ArrScale(myg, dt, gradp)))
    ELSE IF proj_type = 2
    THEN ArrSub(myg, u, ArrScale(myg, dt, advect))
    ELSE u

\* which arm of 'if proj_type == 1 ... elif proj_type == 2' a value takes
ProjBranch(proj_type) ==
    IF proj_type = 1 THEN "approximate"
    ELSE IF proj_type = 2 THEN "pressure-free"
    ELSE "none"

\* evolve: the edge states, (U.grad)U, the provisional update and fill_BC
ProvisionalUpdate(proj_type, k, d, dt, u_MAC, v_MAC) ==
    With(states(k, d, u_MAC, v_MAC), LAMBDA st :
    With(Advect(d.grid, u_MAC, v_MAC, st.u_xint, st.u_yint), LAMBDA advect_x :
    With(Advect(d.grid, u_MAC, v_MAC, st.v_xint, st.v_yint), LAMBDA advect_y :
        [d EXCEPT !.u = fillBC(d.grid, "periodic",
                               Provisional(proj_type, d.grid, dt, d.u, advect_x,
                                           d.gradp_x)),
                  !.v = fillBC(d.grid, "periodic",
                               Provisional(proj_type, d.grid, dt, d.v, advect_y,
                                           d.gradp_y))])))

\* a / k for a scalar k
ArrDiv(g, a, k) == ArrayOf(g, LAMBDA i, j : RDiv(a[i][j], k))

\* the gradp update that accumulates for both values of proj_type
StoreGradpAccumulates(proj_type, myg, gradp, gradphi) ==
    IF proj_type = 1 \/ proj_type = 2 THEN ArrAdd(myg, gradp, gradphi) ELSE gradp

\* store gradp for the next step: += for proj_type 1, = for proj_type 2
StoreGradp(proj_type, myg, gradp, gradphi) ==
    IF proj_type = 1 THEN ArrAdd(myg, gradp, gradphi)
    ELSE IF proj_type = 2 THEN gradphi
    ELSE gradp

\* the velocity correction with the gradient added
CorrectVelocityPlus(myg, dt, u, gradphi) ==
    ArrAdd(myg, u, ArrScale(myg, dt, gradphi))

\* u[:,:] -= dt*gradphi_x
CorrectVelocity(myg, dt, u, gradphi) ==
    ArrSub(myg, u, ArrScale(myg, dt, gradphi))

\* evolve: the final projection (divU of the provisional velocity written
\* into the divU array of the MAC projection, the solve of L phi = D U* / dt
\* from the old phi, phi, the correction, the gradp update, fill_BC)
FinalProjection(proj_type, d, dt, divU0) ==
    With(NewPeriodicMG(d.grid), LAMBDA m0 :
    With(CenteredDivU(solnGrid(m0), d.grid, d.u, d.v, divU0), LAMBDA divU :
    With(CopyWithOneGhost(solnGrid(m0), d.grid, scratch_array(solnGrid(m0)), d.phi),
         LAMBDA phiGuess :
    With(solve(initSolution(initRHS(m0, ArrDiv(solnGrid(m0), divU, dt)), phiGuess),
               RtolSim), LAMBDA c :
    With(CopyWithOneGhost(d.grid, solnGrid(c.m), d.phi, getSolution(c.m)), LAMBDA phi :
    With(GradX(d.grid, phi), LAMBDA gradphi_x :
    With(GradY(d.grid, phi), LAMBDA gradphi_y :
        [d |-> [d EXCEPT
                  !.phi = phi,
                  !.u = fillBC(d.grid, "periodic",
                               CorrectVelocity(d.grid, dt, d.u, gradphi_x)),
                  !.v = fillBC(d.grid, "periodic",
                               CorrectVelocity(d.grid, dt, d.v, gradphi_y)),
                  !.gradp_x = StoreGradp(proj_type, d.grid, d.gradp_x, gradphi_x),
                  !.gradp_y = StoreGradp(proj_type, d.grid, d.gradp_y, gradphi_y)],
         divU |-> divU,
         c |-> c])))))))

\* the end of preevolve with self.cc_data left on the evolved object
RestoreKeepsEvolved(st, cur, orig) ==
    [store |-> [st EXCEPT ![orig].gradp_x = st[cur].gradp_x,
                          ![orig].gradp_y = st[cur].gradp_y],
     cc_data |-> cur]

\* the end of preevolve: orig_gp_x[:,:] = new_gp_x[:,:], the same for y,
\* self.cc_data = orig_data
RestoreOrig(st, cur, orig) ==
    [store |-> [st EXCEPT ![orig].gradp_x = st[cur].gradp_x,
                          ![orig].gradp_y = st[cur].gradp_y],
     cc_data |-> orig]

(***************************************************************************)
(* SpecSim: one Simulation on a doubly periodic 4x4 grid, taken through    *)
(* initialize(), preevolve() and the first pass of the driver's loop       *)
(* (dt = timestep(); evolve(dt)); the exact fractions of a second pass no  *)
(* longer fit TLC's integers.  The runtime parameters, the initial         *)
(* velocity (the problem's init_data) and the kernel case are drawn from   *)
(* small sets.  hist records observations of the run.                      *)
(***************************************************************************)
RpChoices ==
    {[limiter |-> 0, proj_type |-> 1, cfl |-> Half],
     [limiter |-> 1, proj_type |-> 2, cfl |-> Half],
     [limiter |-> 2, proj_type |-> 1, cfl |-> One],
     [limiter |-> 3, proj_type |-> 3, cfl |-> Half]}

\* vortex: u = cos x sin y, v = -sin x cos y; source: the same u, v = 0;
\* shear: u alternating in y, v = 0 (the profiles sampled on four cells)
FlowKinds == {"vortex", "source", "shear"}

SinQ(k) == IF k % 4 = 0 THEN 1 ELSE IF k % 4 = 2 THEN -1 ELSE 0

CosQ(k) == IF k % 4 = 1 THEN 1 ELSE IF k % 4 = 3 THEN -1 ELSE 0

\* init_data(my_data, rp): the interior of u and v; phi and gradp stay zero
init_data(d, flow, amp) ==
    [d EXCEPT
       !.u = ArrayOf(d.grid, LAMBDA i, j :
                IF ~IsInterior(d.grid, i, j) THEN Zero
                ELSE IF flow = "shear" THEN I2R(IF (j - d.grid.jlo) % 2 = 0 THEN amp ELSE -amp)
                ELSE I2R(amp * CosQ(i - d.grid.ilo) * SinQ(j - d.grid.jlo))),
       !.v = ArrayOf(d.grid, LAMBDA i, j :
                IF IsInterior(d.grid, i, j) /\ flow = "vortex"
                THEN I2R(-amp * SinQ(i - d.grid.ilo) * CosQ(j - d.grid.jlo))
                ELSE Zero)]

NoLocals ==
    [caller |-> "none", orig |-> "None", dt |-> Zero, kernel |-> "none",
     u_MAC |-> << >>, v_MAC |-> << >>, divU |-> << >>]

NoHist ==
    [flow |-> "none", u0 |-> << >>, v0 |-> << >>, cloned |-> NoData,
     limitFunc |-> "none", provBranch |-> "none yet", trial |-> NoData,
     t_in |-> Zero, log |-> << >>, raw_MAC |-> << >>, states_MAC |-> << >>]

InitSim ==
    /\ MG = NoMG
    /\ fr = IdleFrame
    /\ ctorCall = NoCtorCall
    /\ rp \in RpChoices
    /\ store = [id \in DataIds |-> NoData]
    /\ cc_data = "None"
    /\ sim_pc = "new"
    /\ loc = NoLocals
    /\ hist = NoHist

SimGrid == Grid2d(4, 4, ngSim, 0, DomainLen, 0, DomainLen)

\* the current CellCenterData2d object
Cur == store[cc_data]

SolverOf(c) == [nx |-> c.m.nx, ny |-> c.m.ny, xlen |-> DomainLen, ylen |-> DomainLen]

\* sim.initialize(): the grid, the six variables, the problem's init_data.
\* Nothing in it looks at incompressible.limiter or incompressible.proj_type.
Initialize ==
    /\ sim_pc = "new"
    /\ \E flow \in FlowKinds :
          \E d \in {init_data(CellCenterData2d(SimGrid), flow, 1)} :
             /\ store' = [store EXCEPT !["d0"] = d]
             /\ hist' = [hist EXCEPT !.flow = flow, !.u0 = d.u, !.v0 = d.v]
    /\ cc_data' = "d0"
    /\ sim_pc' = "ready"
    /\ UNCHANGED <<MG, fr, ctorCall, rp, loc>>

\* sim.preevolve(), step 1: the initial projection
PreProject ==
    /\ sim_pc = "ready"
    /\ \E r \in {InitialProjection(Cur)} :
          /\ store' = [store EXCEPT ![cc_data] = r.d]
          /\ MG' = r.c.m
          /\ fr' = r.c.fr
          /\ ctorCall' = SolverOf(r.c)
    /\ sim_pc' = "pre_projected"
    /\ UNCHANGED <<rp, cc_data, loc, hist>>

\* preevolve, step 2 up to the call of evolve: the clone and the timestep
PreClone ==
    /\ sim_pc = "pre_projected"
    /\ \E orig \in DataIds :
          /\ ~store[orig].live
          /\ store' = [store EXCEPT ![orig] = cell_center_data_clone(Cur)]
          /\ loc' = [NoLocals EXCEPT !.caller = "preevolve", !.orig = orig,
                                     !.dt = timestep(rp.cfl, Cur)]
    /\ hist' = [hist EXCEPT !.cloned = Cur, !.t_in = Cur.t, !.log = << >>]
    /\ sim_pc' = "ev_start"
    /\ UNCHANGED <<MG, fr, ctorCall, rp, cc_data>>

\* evolve(dt) up to mac_vels: the limiter selection, the slopes, the kernel
EvMacVels ==
    /\ sim_pc = "ev_start"
    /\ \E k \in KernelCases :
          \E mv \in {mac_vels(k, Cur)} :
             /\ loc' = [loc EXCEPT !.kernel = k, !.u_MAC = mv.u_MAC, !.v_MAC = mv.v_MAC]
             /\ hist' = [hist EXCEPT !.limitFunc = limitFunc(rp.limiter),
                                     !.raw_MAC = <<mv.u_MAC, mv.v_MAC>>,
                                     !.log = <<"mac_vels">>]
    /\ sim_pc' = "ev_mac"
    /\ UNCHANGED <<MG, fr, ctorCall, rp, store, cc_data>>

\* evolve: the MAC projection
EvMacProject ==
    /\ sim_pc = "ev_mac"
    /\ \E r \in {MacProjection(Cur, loc.u_MAC, loc.v_MAC)} :
          /\ store' = [store EXCEPT ![cc_data] = r.d]
          /\ loc' = [loc EXCEPT !.u_MAC = r.u_MAC, !.v_MAC = r.v_MAC, !.divU = r.divU]
          /\ MG' = r.c.m
          /\ fr' = r.c.fr
          /\ ctorCall' = SolverOf(r.c)
    /\ hist' = [hist EXCEPT !.log = @ \o <<"MAC solve", "MAC correction">>]
    /\ sim_pc' = "ev_macproj"
    /\ UNCHANGED <<rp, cc_data>>

\* evolve: the edge states and the provisional update
EvProvisional ==
    /\ sim_pc = "ev_macproj"
    /\ store' = [store EXCEPT ![cc_data] =
                    ProvisionalUpdate(rp.proj_type, loc.kernel, Cur, loc.dt,
                                      loc.u_MAC, loc.v_MAC)]
    /\ hist' = [hist EXCEPT !.provBranch = ProjBranch(rp.proj_type),
                            !.states_MAC = <<loc.u_MAC, loc.v_MAC>>,
                            !.log = @ \o <<"states", "advect", "provisional update",
                                           "fill_BC">>]
    /\ sim_pc' = "ev_prov"
    /\ UNCHANGED <<MG, fr, ctorCall, rp, cc_data, loc>>

\* evolve: the final projection, to the end of evolve
EvFinalProject ==
    /\ sim_pc = "ev_prov"
    /\ \E r \in {FinalProjection(rp.proj_type, Cur, loc.dt, loc.divU)} :
          /\ store' = [store EXCEPT ![cc_data] = r.d]
          /\ loc' = [loc EXCEPT !.divU = r.divU]
          /\ MG' = r.c.m
          /\ fr' = r.c.fr
          /\ ctorCall' = SolverOf(r.c)
    /\ hist' = [hist EXCEPT !.log = @ \o <<"final solve", "velocity correction",
                                            "gradp update", "fill_BC">>]
    /\ sim_pc' = "ev_done"
    /\ UNCHANGED <<rp, cc_data>>

\* preevolve after evolve returned: gradp into the clone, the clone current
PreRestore ==
    /\ sim_pc = "ev_done"
    /\ loc.caller = "preevolve"
    /\ \E r \in {RestoreOrig(store, cc_data, loc.orig)} :
          /\ store' = r.store
          /\ cc_data' = r.cc_data
    /\ hist' = [hist EXCEPT !.trial = Cur]
    /\ sim_pc' = "preevolved"
    /\ UNCHANGED <<MG, fr, ctorCall, rp, loc>>

\* the driver's loop: dt = sim.timestep(), then sim.evolve(dt)
EvolveCall ==
    /\ sim_pc = "preevolved"
    /\ loc' = [NoLocals EXCEPT !.caller = "main", !.dt = timestep(rp.cfl, Cur)]
    /\ hist' = [hist EXCEPT !.t_in = Cur.t, !.log = << >>]
    /\ sim_pc' = "ev_start"
    /\ UNCHANGED <<MG, fr, ctorCall, rp, store, cc_data>>

\* evolve returns to the driver's loop
EvolveReturn ==
    /\ sim_pc = "ev_done"
    /\ loc.caller = "main"
    /\ sim_pc' = "stepped"
    /\ UNCHANGED <<MG, fr, ctorCall, rp, store, cc_data, loc, hist>>

NextSim ==
    \/ Initialize
    \/ PreProject
    \/ PreClone
    \/ EvMacVels
    \/ EvMacProject
    \/ EvProvisional
    \/ EvFinalProject
    \/ PreRestore
    \/ EvolveCall
    \/ EvolveReturn

SpecSim == InitSim /\ [][NextSim]_vars

\* the visits of one V-cycle on L levels: down L-1 .. 1, bottom, up 1 .. L-1
ExpectedVisits(L) ==
    [k \in 1..(2 * L - 1) |->
        IF k < L THEN <<"down", L - k>>
        ELSE IF k = L THEN <<"bottom", 0>>
        ELSE <<"up", k - L>>]

\* the visits made so far are the first ones of the V-cycle, as many as the
\* position in the cycle says
VisitsInOrder ==
    (MG.status = "ok" /\ MG.nlevels >= 2
       /\ fr.pc \in {"descend", "bottom", "ascend", "diag"}) =>
        /\ Len(fr.visits) =
              (IF fr.pc = "descend" THEN MG.nlevels - 1 - fr.level
               ELSE IF fr.pc = "bottom" THEN MG.nlevels - 1
               ELSE IF fr.pc = "ascend" THEN MG.nlevels - 1 + fr.level
               ELSE 2 * MG.nlevels - 1)
        /\ fr.visits = SubSeq(ExpectedVisits(MG.nlevels), 1, Len(fr.visits))
        /\ fr.pc = "bottom" =>
              MG.grids[0].f = restrict(MG.grids[1].grid, MG.grids[0].grid, MG.grids[1].r)

\* C13: in every V-cycle on L >= 2 levels the levels are visited L-1 .. 1
\* (smooth, then the residual of the smoothed v, then that residual
\* restricted into the f of the next coarser level), then the bottom solve
\* at level 0 with its ghost fill, after the descent has written level 0's
\* f, then 1 .. L-1 (the prolonged coarser v added to v, then smooth).
C13_VCycleOrder ==
    [][/\ VisitsInOrder'
       /\ (InSolve /\ MG.nlevels >= 2 /\ fr.pc = "descend") =>
             /\ MG'.grids[fr.level].v =
                   smooth(MG.grids[fr.level].grid, MG.bc, MG.alpha, MG.beta,
                          MG.grids[fr.level].v, MG.grids[fr.level].f, MG.nsmooth)
             /\ MG'.grids[fr.level].r =
                   computeResidual(MG.grids[fr.level].grid, MG.alpha, MG.beta,
                                   MG'.grids[fr.level].v, MG.grids[fr.level].f,
                                   MG.grids[fr.level].r)
             /\ MG'.grids[fr.level - 1].f =
                   restrict(MG.grids[fr.level].grid, MG.grids[fr.level - 1].grid,
                            MG'.grids[fr.level].r)
       /\ (InSolve /\ MG.nlevels >= 2 /\ fr.pc = "bottom") =>
             /\ \A j \in MG.grids[0].grid.jlo..MG.grids[0].grid.jhi :
                   MG'.grids[0].v[MG.grids[0].grid.ilo][j] =
                      RMul(RMul(RMul(<<-1, 8>>, MG.grids[0].f[MG.grids[0].grid.ilo][j]),
                                MG.grids[0].grid.dx), MG.grids[0].grid.dx)
             /\ MG'.grids[0].v = fillBC(MG.grids[0].grid, MG.bc, MG'.grids[0].v)
       /\ (InSolve /\ MG.nlevels >= 2 /\ fr.pc = "ascend") =>
             MG'.grids[fr.level].v =
                smooth(MG.grids[fr.level].grid, MG.bc, MG.alpha, MG.beta,
                       ArrAdd(MG.grids[fr.level].grid, MG.grids[fr.level].v,
                              prolong(MG.grids[fr.level - 1].grid, MG.grids[fr.level].grid,
                                      MG.grids[fr.level - 1].v)),
                       MG.grids[fr.level].f, MG.nsmooth)]_vars

C13_Witness ==
    /\ MG.status = "ok"
    /\ MG.nlevels = 3
    /\ fr.pc = "diag"
    /\ fr.visits = <<<<"down", 2>>, <<"down", 1>>, <<"bottom", 0>>, <<"up", 1>>, <<"up", 2>>>>
    /\ MG.grids[2].v # fr.entry.grids[2].v

(***************************************************************************)
(* Claims on the integrator                                                *)
(***************************************************************************)
InTrialEvolve ==
    loc.caller = "preevolve" /\ sim_pc \in {"ev_start", "ev_mac", "ev_macproj",
                                            "ev_prov", "ev_done"}

\* the largest element of a nonempty finite set of numbers
RMaxOf(S) == CHOOSE m \in S : \A x \in S : RLe(x, m)

MaxAbsVelocity(d) ==
    RMaxOf({RAbs(d.u[c[1]][c[2]]) : c \in Interior(d.grid)}
           \cup {RAbs(d.v[c[1]][c[2]]) : c \in Interior(d.grid)})

\* the interior index that the periodic image of index k is
WrapX(g, k) == g.ilo + ((k - g.ilo) % g.nx)

WrapY(g, k) == g.jlo + ((k - g.jlo) % g.ny)

\* the centered divergence of the centered gradient of phi: the Laplacian on
\* the stencil of stride two, phi periodic
LapWide(g, phi, i, j) ==
    RAdd(RDiv(RSub(RAdd(phi[WrapX(g, i - 2)][j], phi[WrapX(g, i + 2)][j]),
                   RMul(Two, phi[i][j])),
              RMul(I2R(4), RMul(g.dx, g.dx))),
         RDiv(RSub(RAdd(phi[i][WrapY(g, j - 2)], phi[i][WrapY(g, j + 2)]),
                   RMul(Two, phi[i][j])),
              RMul(I2R(4), RMul(g.dy, g.dy))))

\* the residual the last solve computed, at the solver cell of flow cell (i, j)
SolveResidualAt(g, i, j) ==
    MG.grids[Finest(MG)].r[solnGrid(MG).ilo + (i - g.ilo)][solnGrid(MG).jlo + (j - g.jlo)]

\* C4 as stated: after the final projection of an evolve step whose solve
\* converged, the centered divergence of the velocity is zero up to the
\* solver tolerance (times the size of the velocity) in every interior cell.
C4_DivergenceFreeAfterProjection ==
    (sim_pc = "ev_done" /\ fr.converged = 1) =>
        \A c \in Interior(Cur.grid) :
            RLe(RAbs(DivCell(Cur.grid, Cur.u, Cur.v, c[1], c[2])),
                RMul(RtolSim, MaxAbsVelocity(Cur)))

\* C4, amended: after the final projection of an evolve step whose solve
\* converged, the centered divergence of the velocity equals, in every
\* interior cell, dt times (the 5-point Laplacian of phi minus its
\* stride-two Laplacian) plus dt times the residual of the solve: the
\* correction applies the centered divergence of the centered gradient, not
\* the operator of the solve, so the divergence is zero up to tolerance only
\* where the two Laplacians of phi agree.
C4_DivergenceAfterApproximateProjection ==
    (sim_pc = "ev_done" /\ fr.converged = 1) =>
        \A c \in Interior(Cur.grid) :
            DivCell(Cur.grid, Cur.u, Cur.v, c[1], c[2])
              = RMul(loc.dt,
                     RAdd(RSub(Lap5(Cur.grid, Cur.phi, c[1], c[2]),
                               LapWide(Cur.grid, Cur.phi, c[1], c[2])),
                          SolveResidualAt(Cur.grid, c[1], c[2])))

C4_Witness ==
    /\ sim_pc = "ev_done"
    /\ fr.converged = 1
    /\ loc.kernel = "uniform"
    /\ \E c \in Interior(Cur.grid) :
          /\ DivCell(Cur.grid, Cur.u, Cur.v, c[1], c[2]) # Zero
          /\ Lap5(Cur.grid, Cur.phi, c[1], c[2]) # LapWide(Cur.grid, Cur.phi, c[1], c[2])

\* the centered divergence of the initial velocity, ghosts filled, is zero
\* in every interior cell
C6_InitiallySolenoidal ==
    /\ hist.flow # "none"
    /\ \A c \in Interior(SimGrid) :
          RAdd(RDiv(RMul(Half, RSub(fillBC(SimGrid, "periodic", hist.u0)[c[1] + 1][c[2]],
                                    fillBC(SimGrid, "periodic", hist.u0)[c[1] - 1][c[2]])),
                    SimGrid.dx),
               RDiv(RMul(Half, RSub(fillBC(SimGrid, "periodic", hist.v0)[c[1]][c[2] + 1],
                                    fillBC(SimGrid, "periodic", hist.v0)[c[1]][c[2] - 1])),
                    SimGrid.dy)) = Zero

\* C6: on a periodic grid, when the centered divergence of the initial (u, v)
\* is zero in every interior cell, the initial projection of preevolve solves
\* a zero right-hand side from a zero guess, converges in the first V-cycle
\* with phi = 0, and after preevolve has returned u and v have their initial
\* interior values.
C6_SolenoidalProjectionIsIdentity ==
    C6_InitiallySolenoidal =>
        /\ sim_pc = "pre_projected" =>
              /\ ZeroInside(solnGrid(MG), MG.grids[Finest(MG)].f)
              /\ fr.entry.grids[Finest(MG)].v = scratch_array(solnGrid(MG))
              /\ fr.converged = 1 /\ fr.cyclesRun = 1 /\ MG.numCycles = 1
              /\ getSolution(MG) = scratch_array(solnGrid(MG))
              /\ Cur.phi = scratch_array(Cur.grid)
              /\ SameInside(Cur.grid, Cur.u, hist.u0)
              /\ SameInside(Cur.grid, Cur.v, hist.v0)
        /\ sim_pc = "preevolved" =>
              /\ SameInside(Cur.grid, Cur.u, hist.u0)
              /\ SameInside(Cur.grid, Cur.v, hist.v0)

C6_Witness ==
    /\ sim_pc = "preevolved"
    /\ hist.flow = "vortex"
    /\ C6_InitiallySolenoidal
    /\ ~SameInside(Cur.grid, hist.trial.u, hist.u0)
    /\ SameInside(Cur.grid, Cur.u, hist.u0)
    /\ SameInside(Cur.grid, Cur.v, hist.v0)

\* C8: a configuration whose limiter is not in {0,1,2} or whose proj_type is
\* not in {1,2} does not get past initialize(): no object is set up and no
\* evolve step runs with it.
C8_InvalidConfigRejected ==
    (rp.limiter \notin {0, 1, 2} \/ rp.proj_type \notin {1, 2}) =>
        /\ sim_pc = "new"
        /\ hist.limitFunc = "none"
        /\ hist.provBranch = "none yet"

\* C9: the trial evolve never modifies the clone, and after preevolve has
\* returned u, v, phi and phi-MAC (ghost cells included) are those of the
\* clone, gradp_x and gradp_y those the trial evolve produced.
C9_PreevolveRestores ==
    /\ InTrialEvolve => store[loc.orig] = hist.cloned
    /\ sim_pc = "preevolved" =>
          /\ Cur.u = hist.cloned.u
          /\ Cur.v = hist.cloned.v
          /\ Cur.phi = hist.cloned.phi
          /\ Cur.phi_MAC = hist.cloned.phi_MAC
          /\ Cur.gradp_x = hist.trial.gradp_x
          /\ Cur.gradp_y = hist.trial.gradp_y

C9_Witness ==
    /\ sim_pc = "preevolved"
    /\ hist.trial.u # hist.cloned.u
    /\ hist.trial.phi # hist.cloned.phi
    /\ hist.trial.gradp_x # hist.cloned.gradp_x
    /\ Cur.u = hist.cloned.u
    /\ Cur.gradp_x = hist.trial.gradp_x

\* C10: the trial evolve inside preevolve runs with proj_type = 1 whatever
\* proj_type is configured: its provisional update is the one that includes
\* the old gradp, and its gradp update the accumulating one.
C10_TrialEvolveRunsWithProjType1 ==
    [][InTrialEvolve
       => /\ (sim_pc = "ev_macproj" /\ sim_pc' = "ev_prov") =>
                /\ hist'.provBranch = "approximate"
                /\ store'[cc_data] =
                      ProvisionalUpdate(1, loc.kernel, Cur, loc.dt, loc.u_MAC, loc.v_MAC)
          /\ (sim_pc = "ev_prov" /\ sim_pc' = "ev_done") =>
                store'[cc_data] = FinalProjection(1, Cur, loc.dt, loc.divU).d]_vars

\* C10, what the trial evolve does have: when the configured proj_type is 1
\* or 2 and gradp is zero on entry, the fields its provisional update and its
\* gradp update produce are those the proj_type = 1 arms produce, although the
\* arm taken is that of the configured value.
C10_TrialEvolveFieldsMatchProjType1 ==
    [][(/\ InTrialEvolve
        /\ rp.proj_type \in {1, 2}
        /\ hist.cloned.gradp_x = scratch_array(SimGrid)
        /\ hist.cloned.gradp_y = scratch_array(SimGrid))
       => /\ (sim_pc = "ev_macproj" /\ sim_pc' = "ev_prov") =>
                /\ hist'.provBranch = ProjBranch(rp.proj_type)
                /\ store'[cc_data] =
                      ProvisionalUpdate(1, loc.kernel, Cur, loc.dt, loc.u_MAC, loc.v_MAC)
          /\ (sim_pc = "ev_prov" /\ sim_pc' = "ev_done") =>
                store'[cc_data] = FinalProjection(1, Cur, loc.dt, loc.divU).d]_vars

\* C11: a call evolve(dt) advances the time t of the flow state by exactly
\* dt: when evolve has finished, t is the time on entry plus dt.
C11_EvolveAdvancesTime ==
    sim_pc = "ev_done" => Cur.t = RAdd(hist.t_in, loc.dt)

\* the steps of one evolve, in the order of the text of evolve
EvolveSteps ==
    <<"mac_vels", "MAC solve", "MAC correction", "states", "advect",
      "provisional update", "fill_BC", "final solve", "velocity correction",
      "gradp update", "fill_BC">>

\* the MAC velocities a and b are those mac_vels returned, less the one-sided
\* gradient of phi-MAC on the faces that bound the interior cells
CorrectedMAC(a, b) ==
    /\ \A i \in Cur.grid.ilo..(Cur.grid.ihi + 1), j \in Cur.grid.jlo..Cur.grid.jhi :
          a[i][j] = RSub(hist.raw_MAC[1][i][j],
                         RDiv(RSub(Cur.phi_MAC[i][j], Cur.phi_MAC[i - 1][j]), Cur.grid.dx))
    /\ \A i \in Cur.grid.ilo..Cur.grid.ihi, j \in Cur.grid.jlo..(Cur.grid.jhi + 1) :
          b[i][j] = RSub(hist.raw_MAC[2][i][j],
                         RDiv(RSub(Cur.phi_MAC[i][j], Cur.phi_MAC[i][j - 1]), Cur.grid.dy))

\* C12: in every evolve the steps happen in the order mac_vels, MAC solve,
\* correction of u_MAC and v_MAC by the gradient of phi-MAC, states (which
\* receives the corrected MAC velocities), advective terms and provisional
\* update, ghost fill of the velocity, final solve, velocity correction and
\* gradp update.
C12_EvolveStepOrder ==
    /\ sim_pc \in {"ev_mac", "ev_macproj", "ev_prov", "ev_done"} =>
          /\ Len(hist.log) <= Len(EvolveSteps)
          /\ hist.log = SubSeq(EvolveSteps, 1, Len(hist.log))
    /\ sim_pc = "ev_mac" => Len(hist.log) = 1
    /\ sim_pc = "ev_macproj" =>
          /\ Len(hist.log) = 3
          /\ fr.pc = "returned"
          /\ SameInside(Cur.grid, Cur.phi_MAC,
                        CopyWithOneGhost(Cur.grid, solnGrid(MG), Cur.phi_MAC, getSolution(MG)))
          /\ CorrectedMAC(loc.u_MAC, loc.v_MAC)
    /\ sim_pc = "ev_prov" =>
          /\ Len(hist.log) = 7
          /\ CorrectedMAC(hist.states_MAC[1], hist.states_MAC[2])
          /\ Cur.u = fillBC(Cur.grid, "periodic", Cur.u)
          /\ Cur.v = fillBC(Cur.grid, "periodic", Cur.v)
    /\ sim_pc = "ev_done" =>
          /\ hist.log = EvolveSteps
          /\ CorrectedMAC(hist.states_MAC[1], hist.states_MAC[2])

C12_Witness ==
    /\ sim_pc = "ev_done"
    /\ hist.log = EvolveSteps
    /\ hist.states_MAC[1] # hist.raw_MAC[1]
    /\ CorrectedMAC(hist.states_MAC[1], hist.states_MAC[2])

\* the centered gradient of phi at an interior cell, in x and in y
CenteredGradX(g, phi, i, j) ==
    RDiv(RMul(Half, RSub(phi[i + 1][j], phi[i - 1][j])), g.dx)

CenteredGradY(g, phi, i, j) ==
    RDiv(RMul(Half, RSub(phi[i][j + 1], phi[i][j - 1])), g.dy)

\* the advective terms evolve forms from the MAC velocities and edge states
AdvectX ==
    Advect(Cur.grid, loc.u_MAC, loc.v_MAC,
           states(loc.kernel, Cur, loc.u_MAC, loc.v_MAC).u_xint,
           states(loc.kernel, Cur, loc.u_MAC, loc.v_MAC).u_yint)

AdvectY ==
    Advect(Cur.grid, loc.u_MAC, loc.v_MAC,
           states(loc.kernel, Cur, loc.u_MAC, loc.v_MAC).v_xint,
           states(loc.kernel, Cur, loc.u_MAC, loc.v_MAC).v_yint)

\* C16: with proj_type = 1 the provisional update subtracts dt*(advect +
\* gradp_old) from U and evolve ends with gradp = gradp_old + grad phi; with
\* proj_type = 2 it subtracts dt*advect only and evolve ends with gradp =
\* grad phi; in both cases the final correction subtracts dt*grad phi from
\* U, grad phi being the centered gradient of the newly solved phi.
C16_ProjTypeFormulas ==
    [][rp.proj_type \in {1, 2} =>
         /\ (sim_pc = "ev_macproj" /\ sim_pc' = "ev_prov") =>
               \A c \in Interior(Cur.grid) :
                  /\ store'[cc_data].u[c[1]][c[2]] =
                        RSub(Cur.u[c[1]][c[2]],
                             RMul(loc.dt,
                                  IF rp.proj_type = 1
                                  THEN RAdd(AdvectX[c[1]][c[2]], Cur.gradp_x[c[1]][c[2]])
                                  ELSE AdvectX[c[1]][c[2]]))
                  /\ store'[cc_data].v[c[1]][c[2]] =
                        RSub(Cur.v[c[1]][c[2]],
                             RMul(loc.dt,
                                  IF rp.proj_type = 1
                                  THEN RAdd(AdvectY[c[1]][c[2]], Cur.gradp_y[c[1]][c[2]])
                                  ELSE AdvectY[c[1]][c[2]]))
         /\ (sim_pc = "ev_prov" /\ sim_pc' = "ev_done") =>
               /\ SameInside(Cur.grid, store'[cc_data].phi,
                             CopyWithOneGhost(Cur.grid, solnGrid(MG'), Cur.phi,
                                              getSolution(MG')))
               /\ \A c \in Interior(Cur.grid) :
                     /\ store'[cc_data].u[c[1]][c[2]] =
                           RSub(Cur.u[c[1]][c[2]],
                                RMul(loc.dt, CenteredGradX(Cur.grid, store'[cc_data].phi,
                                                           c[1], c[2])))
                     /\ store'[cc_data].v[c[1]][c[2]] =
                           RSub(Cur.v[c[1]][c[2]],
                                RMul(loc.dt, CenteredGradY(Cur.grid, store'[cc_data].phi,
                                                           c[1], c[2])))
                     /\ store'[cc_data].gradp_x[c[1]][c[2]] =
                           RAdd(IF rp.proj_type = 1 THEN Cur.gradp_x[c[1]][c[2]] ELSE Zero,
                                CenteredGradX(Cur.grid, store'[cc_data].phi, c[1], c[2]))
                     /\ store'[cc_data].gradp_y[c[1]][c[2]] =
                           RAdd(IF rp.proj_type = 1 THEN Cur.gradp_y[c[1]][c[2]] ELSE Zero,
                                CenteredGradY(Cur.grid, store'[cc_data].phi, c[1], c[2]))]_vars

C16_Witness ==
    /\ sim_pc = "ev_done"
    /\ loc.caller = "main"
    /\ rp.proj_type = 2
    /\ loc.kernel = "uniform"
    /\ hist.trial.gradp_x # scratch_array(SimGrid)
    /\ Cur.gradp_x # hist.trial.gradp_x
    /\ Cur.gradp_x # scratch_array(SimGrid)

\* the ghost cells of a hold the periodic image of its interior: every cell
\* equals the interior cell it wraps to
GhostsCurrent(g, a) ==
    \A i \in 0..(g.qx - 1), j \in 0..(g.qy - 1) :
        a[i][j] = a[WrapX(g, i)][WrapY(g, j)]

\* C17: in every run initialize(); preevolve(); evolve()*, the trial evolve
\* included, when evolve starts (it computes the limited slopes and calls
\* mac_vels before anything else) the ghost cells of u and v hold the
\* boundary fill of the current interior values; so do they when evolve has
\* returned, which is where the next evolve starts.
C17_GhostsFilledAtEvolveStart ==
    sim_pc \in {"ev_start", "preevolved", "stepped"} =>
        /\ GhostsCurrent(Cur.grid, Cur.u)
        /\ GhostsCurrent(Cur.grid, Cur.v)

C17_Witness ==
    /\ sim_pc = "ev_start"
    /\ loc.caller = "preevolve"
    /\ hist.flow = "source"
    /\ ~SameInside(Cur.grid, Cur.u, hist.u0)
    /\ GhostsCurrent(Cur.grid, Cur.u)
    /\ \E i \in 0..(Cur.grid.ilo - 1), j \in Cur.grid.jlo..Cur.grid.jhi : Cur.u[i][j] # Zero

\* the MAC divergence of the face velocities a, b at an interior cell
MacDivAt(g, a, b, i, j) ==
    RAdd(RDiv(RSub(a[i + 1][j], a[i][j]), g.dx),
         RDiv(RSub(b[i][j + 1], b[i][j]), g.dy))

\* phi-MAC with its one ghost layer solves the 5-point Poisson equation for
\* the divergence of the MAC velocities mac_vels returned
PhiMacSolvesPoisson ==
    \A c \in Interior(Cur.grid) :
        RAdd(RDiv(RSub(RAdd(Cur.phi_MAC[c[1] + 1][c[2]], Cur.phi_MAC[c[1] - 1][c[2]]),
                       RMul(Two, Cur.phi_MAC[c[1]][c[2]])),
                  RMul(Cur.grid.dx, Cur.grid.dx)),
             RDiv(RSub(RAdd(Cur.phi_MAC[c[1]][c[2] + 1], Cur.phi_MAC[c[1]][c[2] - 1]),
                       RMul(Two, Cur.phi_MAC[c[1]][c[2]])),
                  RMul(Cur.grid.dy, Cur.grid.dy)))
          = MacDivAt(Cur.grid, hist.raw_MAC[1], hist.raw_MAC[2], c[1], c[2])

\* C18: on a periodic grid, when phi-MAC with its one ghost layer satisfies
\* the 5-point Poisson equation for div U_MAC in every interior cell, the
\* MAC divergence of the corrected u_MAC, v_MAC is zero in every interior
\* cell, and every phi-MAC cell the correction reads (the interior and one
\* ghost layer) holds the value of the solution of this evolve's MAC solve.
C18_MacProjectionExact ==
    sim_pc = "ev_macproj" =>
        /\ \A i \in (Cur.grid.ilo - 1)..(Cur.grid.ihi + 1),
              j \in (Cur.grid.jlo - 1)..(Cur.grid.jhi + 1) :
              Cur.phi_MAC[i][j] =
                 getSolution(MG)[solnGrid(MG).ilo + (i - Cur.grid.ilo)]
                                [solnGrid(MG).jlo + (j - Cur.grid.jlo)]
        /\ PhiMacSolvesPoisson =>
              \A c \in Interior(Cur.grid) :
                 MacDivAt(Cur.grid, loc.u_MAC, loc.v_MAC, c[1], c[2]) = Zero

C18_Witness ==
    /\ sim_pc = "ev_macproj"
    /\ loc.kernel = "checker"
    /\ PhiMacSolvesPoisson
    /\ loc.v_MAC # hist.raw_MAC[2]
    /\ \E c \in Interior(Cur.grid) :
          MacDivAt(Cur.grid, hist.raw_MAC[1], hist.raw_MAC[2], c[1], c[2]) # Zero
    /\ \A c \in Interior(Cur.grid) :
          MacDivAt(Cur.grid, loc.u_MAC, loc.v_MAC, c[1], c[2]) = Zero

=============================================================================
